---- MODULE Spec2Model ----
(***************************************************************************)
(* A model of the CoreVM pipeline of contour-terminal/endo: the stack VM   *)
(* (vm/Runner.cpp), the target-code generator (TargetCodeGenerator.cpp),   *)
(* the SSA IR (ir/*.cpp), the transform passes and the program linker.     *)
(***************************************************************************)
EXTENDS Integers, Sequences, FiniteSets, TLC

VARIABLES
    \* ---- vm/Runner.h: the Runner's fields and the position inside loop()
    code,        \* Handler::_code of the handler being run
    natFuncs,    \* Program::_nativeFunctions (resolved callbacks, 0-based ids)
    natHandlers, \* Program::_nativeHandlers
    numbers,     \* ConstantPool::_numbers, the program's integer constants
    dispatch,    \* the build's dispatch loop: "switch", "goto" or "threaded"
    quota,       \* Runner::_quota
    state,       \* Runner::_state
    ip,          \* Runner::_ip, the last saved program execution offset
    pc,          \* loop()'s local pc, as an instruction index
    stack,       \* Runner::_stack
    globals,     \* Runner::_globals
    phase,       \* "idle": outside run()/resume(); "loop": inside loop();
                 \* "raised": QuotaExceeded left run()/resume(); "aborted"
    hist,        \* what an observer of the runner has seen so far
    \* ---- ir/*.h: the heap of Values of one IRHandler
    ir,          \* obj: every Value's fields; blocks: IRHandler::_blocks;
                 \* held: the Instr a caller owns outside any block
    \* ---- TargetCodeGenerator.h
    cg,          \* the generator's fields while it walks a handler
    \* ---- vm/Program.h, vm/Runtime.h
    lk,          \* the program being linked against a runtime
    \* ---- ir/PassManager.h
    pm           \* the registered passes and the position inside run()

vmVars == <<code, natFuncs, natHandlers, numbers, dispatch, quota, state, ip, pc,
            stack, globals, phase, hist>>

vars == <<vmVars, ir, cg, lk, pm>>

----------------------------------------------------------------------------
(* Bounds of the model. *)
MaxQuota == 4
MaxRuns == 3
MaxCount == 6
MaxMutations == 2
MaxBuiltins == 3
MaxPasses == 3
MaxChanges == 2

(* vm/Runner.h:28 *)
NoQuota == -1

----------------------------------------------------------------------------
(* Helpers on sequences. *)
Last(s) == s[Len(s)]

DropLast(s, n) == SubSeq(s, 1, Len(s) - n)

Min(a, b) == IF a < b THEN a ELSE b

(* The value of a variable that a specification does not use. *)
Unused == "unused"

(* An instruction word: opcode and the three operands (makeInstruction). *)
I0(o) == [op |-> o, A |-> 0, B |-> 0, C |-> 0]

I1(o, a) == [op |-> o, A |-> a, B |-> 0, C |-> 0]

I3(o, a, b, c) == [op |-> o, A |-> a, B |-> b, C |-> c]

(* Handler::setCode: the code always ends in EXIT. *)
setCode(c) ==
    IF Len(c) > 0 /\ Last(c).op = "EXIT" THEN c ELSE Append(c, I1("EXIT", 0))

(* The price of an opcode: the unit price. *)
getPrice(op) == 1

----------------------------------------------------------------------------
(* vm/Runner.cpp: the interpreter. *)

(* Runner::consume: quota and "QuotaExceeded was thrown" after paying for *)
(* opcode op with quota q.                                                 *)
consume(q, op) ==
    IF q = NoQuota THEN [q |-> q, raised |-> FALSE]
    ELSE IF getPrice(op) >= q THEN [q |-> 0, raised |-> TRUE]
    ELSE [q |-> q - getPrice(op), raised |-> FALSE]

(* Runner::Stack::rotate: moves stack[n] to the top (n is 0-based). *)
rotate(s, n) ==
    [i \in 1..Len(s) |->
        IF i < n + 1 THEN s[i]
        ELSE IF i < Len(s) THEN s[i + 1]
        ELSE s[n + 1]]

(* The opcodes that take two numbers and leave one. *)
BinaryOps == {"NADD", "NSUB", "NMUL", "NDIV", "NCMPEQ", "NCMPNE", "NCMPLE",
              "NCMPGE", "NCMPLT", "NCMPGT", "BAND", "BOR", "BXOR",
              "PCMPEQ", "PCMPNE"}

B2N(b) == IF b THEN 1 ELSE 0

(* The C++ quotient of two integers, which truncates towards zero. *)
Quotient(a, b) ==
    LET abs(x) == IF x < 0 THEN 0 - x ELSE x
        q == abs(a) \div abs(b)
    IN IF (a < 0) = (b < 0) THEN q ELSE 0 - q

(* SP(-2) = getNumber(-2) OP getNumber(-1) for the opcode op (for the two  *)
(* PCMP opcodes the operands are getIPAddress(..)).                         *)
BinaryResult(op, a, b) ==
    CASE op = "NADD" -> a + b
      [] op = "NSUB" -> a - b
      [] op = "NMUL" -> a * b
      [] op = "NDIV" -> Quotient(a, b)
      [] op = "NCMPEQ" -> B2N(a = b)
      [] op = "NCMPNE" -> B2N(a # b)
      [] op = "NCMPLE" -> B2N(a <= b)
      [] op = "NCMPGE" -> B2N(a >= b)
      [] op = "NCMPLT" -> B2N(a < b)
      [] op = "NCMPGT" -> B2N(a > b)
      \* SP(-2) = getIPAddress(-2) == getIPAddress(-2)
      [] op = "PCMPEQ" -> B2N(a = a)
      [] op = "PCMPNE" -> B2N(a # b)
      [] op = "BAND" -> B2N(a # 0 /\ b # 0)
      [] op = "BOR" -> B2N(a # 0 \/ b # 0)
      [] op = "BXOR" -> B2N((a # 0) # (b # 0))

UnaryOps == {"NNEG", "BNOT", "NCMPZ"}

(* ConstantPool::_ipaddrs of the runner's program; a stack value that      *)
(* points to an entry is written as the entry.                              *)
IPAddresses == <<167772161, 167772162, 2130706433>>

UnaryResult(op, a) ==
    CASE op = "NNEG" -> 0 - a
      [] op = "BNOT" -> B2N(a = 0)
      [] op = "NCMPZ" -> B2N(a = 0)

(* What executing one plain opcode (no CALL, HANDLER, EXIT) does to the    *)
(* stack and the globals, and where control goes: ok is FALSE where the    *)
(* code asserts, aborts or indexes out of bounds.                           *)
Effect(in, st, gl, at) ==
    LET n == Len(st)
        bad == [ok |-> FALSE, stack |-> st, globals |-> gl, to |-> at]
        go(s, g, t) == [ok |-> TRUE, stack |-> s, globals |-> g, to |-> t]
    IN
    CASE in.op = "NOP" -> go(st, gl, at + 1)
      [] in.op = "ALLOCA" ->
            go(st \o [i \in 1..in.A |-> 0], gl, at + 1)
      [] in.op = "DISCARD" ->
            IF in.A <= n THEN go(DropLast(st, in.A), gl, at + 1) ELSE bad
      [] in.op = "STACKROT" ->
            IF in.A < n THEN go(rotate(st, in.A), gl, at + 1) ELSE bad
      [] in.op = "GALLOCA" -> go(st, Append(gl, 0), at + 1)
      [] in.op = "GLOAD" ->
            IF in.A < Len(gl) THEN go(Append(st, gl[in.A + 1]), gl, at + 1)
            ELSE bad
      [] in.op = "GSTORE" ->
            IF n >= 1 /\ in.A < Len(gl)
            THEN go(DropLast(st, 1), [gl EXCEPT ![in.A + 1] = st[n]], at + 1)
            ELSE bad
      [] in.op = "JMP" -> go(st, gl, in.A)
      [] in.op = "JN" ->
            IF n >= 1
            THEN go(DropLast(st, 1), gl, IF st[n] # 0 THEN in.A ELSE at + 1)
            ELSE bad
      [] in.op = "JZ" ->
            IF n >= 1
            THEN go(DropLast(st, 1), gl, IF st[n] = 0 THEN in.A ELSE at + 1)
            ELSE bad
      [] in.op = "LOAD" ->
            IF in.A < n THEN go(Append(st, st[in.A + 1]), gl, at + 1) ELSE bad
      [] in.op = "STORE" ->
            \* _stack[A] = pop(): the slot is looked up after the pop
            IF n >= 1 /\ in.A < n - 1
            THEN go([DropLast(st, 1) EXCEPT ![in.A + 1] = st[n]], gl, at + 1)
            ELSE bad
      [] in.op = "ILOAD" -> go(Append(st, in.A), gl, at + 1)
      [] in.op = "NLOAD" ->
            IF in.A < Len(numbers)
            THEN go(Append(st, numbers[in.A + 1]), gl, at + 1) ELSE bad
      [] in.op \in UnaryOps ->
            IF n >= 1
            THEN go([st EXCEPT ![n] = UnaryResult(in.op, st[n])], gl, at + 1)
            ELSE bad
      [] in.op = "PLOAD" ->
            IF in.A < Len(IPAddresses)
            THEN go(Append(st, IPAddresses[in.A + 1]), gl, at + 1) ELSE bad
      [] in.op \in BinaryOps ->
            IF n >= 2 /\ ~(in.op = "NDIV" /\ st[n] = 0)
            THEN go(Append(DropLast(st, 2),
                           BinaryResult(in.op, st[n - 1], st[n])), gl, at + 1)
            ELSE bad
      [] OTHER -> bad

(* The hist record an observer starts with. *)
NoSnap == [ip |-> 0, stack |-> <<>>, globals |-> <<>>]

Hist0 ==
    [rets |-> <<>>, executed |-> 0, callPc |-> -1, snap |-> NoSnap,
     resumed |-> FALSE, failPc |-> -1, calls |-> 0, susps |-> 0,
     quota0 |-> NoQuota, handled |-> "none"]

Count(h) == [h EXCEPT !.executed = Min(h.executed + 1, MaxCount),
                      !.resumed = FALSE, !.handled = "none"]

(* `jump`: pay for the opcode at npc, then dispatch to it. *)
Jump(npc, h) ==
    IF npc < 0 \/ npc >= Len(code)
    THEN /\ phase' = "aborted"
         /\ pc' = npc
         /\ quota' = quota
         /\ hist' = h
    ELSE LET r == consume(quota, code[npc + 1].op) IN
         /\ pc' = npc
         /\ quota' = r.q
         /\ phase' = IF r.raised THEN "raised" ELSE "loop"
         /\ hist' = IF r.raised THEN [h EXCEPT !.failPc = npc] ELSE h

(* set_pc(_ip) on entering loop(): where execution starts. *)
(* A loop() that always starts at the first instruction. *)
StartPc_m(saved) == 0

StartPc(saved) == saved

(* incr_pc(); _ip = get_pc(): the ip a CALL or HANDLER at pc `at` saves    *)
(* before it invokes the native callback.                                  *)
(* A CALL that saves its own pc. *)
SavedIp_m(at) == at

SavedIp(at) == at + 1

(* Runner::loop up to LOOP_BEGIN: the switch loop dispatches the first     *)
(* opcode without paying for it; the other two loops begin with `jump`.    *)
EnterLoop(h0) ==
    LET h == [h0 EXCEPT !.callPc = -1, !.handled = "none"] IN
    /\ state' = "Running"
    /\ IF dispatch = "switch"
       THEN /\ pc' = StartPc(ip)
            /\ quota' = quota
            /\ phase' = IF StartPc(ip) < Len(code) THEN "loop" ELSE "aborted"
            /\ hist' = h
       ELSE Jump(StartPc(ip), h)
    /\ UNCHANGED <<code, natFuncs, natHandlers, numbers, dispatch, ip, stack, globals>>
    /\ UNCHANGED <<ir, cg, lk, pm>>

(* Runner::run *)
Run ==
    /\ phase = "idle"
    /\ state = "Inactive"
    /\ Len(hist.rets) < MaxRuns
    /\ EnterLoop(hist)

(* Runner::resume *)
Resume ==
    /\ phase = "idle"
    /\ state = "Suspended"
    /\ Len(hist.rets) < MaxRuns
    /\ EnterLoop([hist EXCEPT !.resumed = TRUE])

(* What run()/resume() returning r leaves for the observer. *)
Returned(h, r, st, at, s, g) ==
    [h EXCEPT !.rets = Append(h.rets, [ret |-> r, state |-> st, ip |-> at]),
              !.snap = IF st = "Suspended"
                       THEN [ip |-> at, stack |-> s, globals |-> g]
                       ELSE h.snap]

(* One plain opcode, then `next` or `jump_to`. *)
ExecPlain ==
    /\ phase = "loop"
    /\ code[pc + 1].op \notin {"EXIT", "CALL", "HANDLER"}
    /\ LET e == Effect(code[pc + 1], stack, globals, pc) IN
       IF e.ok
       THEN /\ stack' = e.stack
            /\ globals' = e.globals
            /\ Jump(e.to, Count(hist))
       ELSE /\ phase' = "aborted"
            /\ UNCHANGED <<stack, globals, pc, quota, hist>>
    /\ UNCHANGED <<code, natFuncs, natHandlers, numbers, dispatch, state, ip>>
    /\ UNCHANGED <<ir, cg, lk, pm>>

(* instr(EXIT) *)
ExecExit ==
    /\ phase = "loop"
    /\ code[pc + 1].op = "EXIT"
    /\ state' = "Inactive"
    /\ ip' = pc
    /\ phase' = "idle"
    /\ hist' = Returned(Count(hist), code[pc + 1].A # 0, "Inactive", pc,
                        stack, globals)
    /\ UNCHANGED <<code, natFuncs, natHandlers, numbers, dispatch, quota, pc, stack,
                   globals>>
    /\ UNCHANGED <<ir, cg, lk, pm>>

(* instr(CALL): the native function may call suspend() and sets a result. *)
ExecCall ==
    /\ phase = "loop"
    /\ code[pc + 1].op = "CALL"
    /\ LET id == code[pc + 1].A
           argc == code[pc + 1].B
       IN
       IF id >= Len(natFuncs) \/ argc > Len(stack)
       THEN /\ phase' = "aborted"
            /\ UNCHANGED <<state, ip, pc, quota, stack, hist>>
       ELSE \E susp \in BOOLEAN, result \in {0, 1} :
            LET st == IF natFuncs[id + 1].void
                      THEN DropLast(stack, argc)
                      ELSE Append(DropLast(stack, argc), result)
                h == [Count(hist) EXCEPT !.calls = Min(@ + 1, MaxCount)]
            IN
            /\ ip' = SavedIp(pc)
            /\ stack' = st
            /\ IF susp
               THEN /\ state' = "Suspended"
                    /\ phase' = "idle"
                    /\ pc' = pc + 1
                    /\ quota' = quota
                    /\ hist' = Returned([h EXCEPT !.callPc = pc,
                                                  !.susps = Min(@ + 1, MaxCount)],
                                        FALSE, "Suspended", SavedIp(pc), st,
                                        globals)
               ELSE /\ state' = state
                    /\ Jump(SavedIp(pc), h)
    /\ UNCHANGED <<code, natFuncs, natHandlers, numbers, dispatch, globals>>
    /\ UNCHANGED <<ir, cg, lk, pm>>

(* A HANDLER that takes no handler's word for having handled the event. *)
Handled_m(result) == FALSE

(* instr(HANDLER): const bool handled = (bool) args[0] *)
Handled(result) == result

(* instr(HANDLER): the native handler may call suspend() and reports     *)
(* whether it handled the event.                                          *)
ExecHandler ==
    /\ phase = "loop"
    /\ code[pc + 1].op = "HANDLER"
    /\ LET id == code[pc + 1].A
           argc == code[pc + 1].B
       IN
       IF id >= Len(natHandlers) \/ argc > Len(stack)
       THEN /\ phase' = "aborted"
            /\ UNCHANGED <<state, ip, pc, quota, stack, hist>>
       ELSE \E susp \in BOOLEAN, result \in BOOLEAN :
            LET st == DropLast(stack, argc)
                handled == Handled(result)
                h == [Count(hist) EXCEPT !.calls = Min(@ + 1, MaxCount),
                                         !.handled = IF result THEN "true"
                                                     ELSE "false"]
            IN
            /\ ip' = SavedIp(pc)
            /\ stack' = st
            /\ IF susp
               THEN /\ state' = "Suspended"
                    /\ phase' = "idle"
                    /\ pc' = pc + 1
                    /\ quota' = quota
                    /\ hist' = Returned([h EXCEPT !.callPc = pc,
                                                  !.susps = Min(@ + 1, MaxCount)],
                                        FALSE, "Suspended", SavedIp(pc), st,
                                        globals)
               ELSE IF handled
               THEN /\ state' = "Inactive"
                    /\ phase' = "idle"
                    /\ pc' = pc + 1
                    /\ quota' = quota
                    /\ hist' = Returned(h, TRUE, "Inactive", SavedIp(pc), st,
                                        globals)
               ELSE /\ state' = state
                    /\ Jump(SavedIp(pc), h)
    /\ UNCHANGED <<code, natFuncs, natHandlers, numbers, dispatch, globals>>
    /\ UNCHANGED <<ir, cg, lk, pm>>

(* The handlers the runner is tried on (ConstantPool::setHandler). *)
VMPrograms ==
    << <<I1("ILOAD", 3), I1("ILOAD", 4), I0("NADD")>>,
       <<I3("CALL", 0, 0, 0), I1("EXIT", 0)>>,
       <<I1("ILOAD", 1), I3("CALL", 1, 1, 1), I1("DISCARD", 1),
         I1("ILOAD", 2), I3("HANDLER", 0, 1, 0), I1("EXIT", 1)>>,
       <<I1("ILOAD", 1), I1("JN", 0)>>,
       <<I1("GALLOCA", 1), I1("ILOAD", 5), I1("GSTORE", 0), I1("GLOAD", 0),
         I1("JZ", 0), I3("HANDLER", 0, 0, 0), I3("CALL", 0, 0, 0)>> >>

(* The program's resolved native tables: f()V and g(I)I; one handler. *)
VMFuncs == << [void |-> TRUE], [void |-> FALSE] >>

VMHandlers == << [void |-> TRUE] >>

Dispatches == {"switch", "goto", "threaded"}

(* Runner::Runner *)
InitVM ==
    /\ \E i \in 1..Len(VMPrograms) : code = setCode(VMPrograms[i])
    /\ natFuncs = VMFuncs
    /\ natHandlers = VMHandlers
    /\ numbers = <<>>
    /\ dispatch \in Dispatches
    /\ quota \in {NoQuota} \cup 0..MaxQuota
    /\ state = "Inactive"
    /\ ip = 0
    /\ pc = 0
    /\ stack = <<>>
    /\ globals = <<>>
    /\ phase = "idle"
    /\ hist = [Hist0 EXCEPT !.quota0 = quota]
    /\ ir = Unused
    /\ cg = Unused
    /\ lk = Unused
    /\ pm = Unused

NextVM ==
    \/ Run
    \/ Resume
    \/ ExecPlain
    \/ ExecExit
    \/ ExecCall
    \/ ExecHandler

SpecVM == InitVM /\ [][NextVM]_vars

(* ---------------------------------------------------------------------- *)
(* Runner: rewind, the binary opcodes, the three dispatch loops             *)
(* ---------------------------------------------------------------------- *)
(* lk holds what the caller of the runner remembers: how often it called   *)
(* rewind(), and, once it has built a second runner with another dispatch  *)
(* loop for the same handler and quota, what it saw of the first one.       *)

MaxRewinds == 1

MaxOperand == 2

(* Runner::rewind *)
Rewind ==
    /\ phase = "idle"
    /\ lk.rewinds < MaxRewinds
    /\ ip' = 0
    /\ lk' = [lk EXCEPT !.rewinds = @ + 1]
    /\ UNCHANGED <<code, natFuncs, natHandlers, numbers, dispatch, quota, state,
                   pc, stack, globals, phase, hist>>
    /\ UNCHANGED <<ir, cg, pm>>

(* What a caller can see of a runner between two calls of its interface:   *)
(* the opcodes it executed (the trace hook's calls), what run()/resume()   *)
(* returned, the quota left, whether and where QuotaExceeded was thrown,   *)
(* and getInstructionPointer(), state and stack.                            *)
Observed ==
    [executed |-> hist.executed, rets |-> hist.rets, quota |-> quota,
     phase |-> phase, failPc |-> hist.failPc, state |-> state, ip |-> ip,
     stack |-> stack, globals |-> globals, calls |-> hist.calls,
     rewinds |-> lk.rewinds]

(* run()/resume() has returned or thrown at least once and none is active. *)
Settled(o) == o.phase # "loop" /\ (o.rets # <<>> \/ o.phase # "idle")

(* Runner::Runner for the same handler and quota in a build with another   *)
(* dispatch loop, once the first runner has been driven without any        *)
(* native callback, so that what it did depends on handler and quota only. *)
OtherBuild ==
    /\ lk.round = 1
    /\ Settled(Observed)
    /\ hist.calls = 0
    /\ lk' = [round |-> 2, first |-> Observed, build |-> dispatch,
              rewinds |-> 0]
    /\ dispatch' \in Dispatches \ {dispatch}
    /\ quota' = hist.quota0
    /\ state' = "Inactive"
    /\ ip' = 0
    /\ pc' = 0
    /\ stack' = <<>>
    /\ globals' = <<>>
    /\ phase' = "idle"
    /\ hist' = [Hist0 EXCEPT !.quota0 = hist.quota0]
    /\ UNCHANGED <<code, natFuncs, natHandlers, numbers>>
    /\ UNCHANGED <<ir, cg, pm>>

(* `<load> a; <load> b; <op>` for every binary opcode, as in Runner-test.  *)
BinaryPrograms ==
    { << I1(IF op \in {"PCMPEQ", "PCMPNE"} THEN "PLOAD" ELSE "ILOAD", a),
         I1(IF op \in {"PCMPEQ", "PCMPNE"} THEN "PLOAD" ELSE "ILOAD", b),
         I0(op) >> : op \in BinaryOps, a \in 0..MaxOperand, b \in 0..MaxOperand }

InitRunner ==
    /\ code \in {setCode(VMPrograms[i]) : i \in 1..Len(VMPrograms)}
                \cup {setCode(p) : p \in BinaryPrograms}
    /\ natFuncs = VMFuncs
    /\ natHandlers = VMHandlers
    /\ numbers = <<>>
    /\ dispatch \in Dispatches
    /\ quota \in IF code \in {setCode(p) : p \in BinaryPrograms}
                  THEN {NoQuota} ELSE {NoQuota} \cup 0..MaxQuota
    /\ state = "Inactive"
    /\ ip = 0
    /\ pc = 0
    /\ stack = <<>>
    /\ globals = <<>>
    /\ phase = "idle"
    /\ hist = [Hist0 EXCEPT !.quota0 = quota]
    /\ ir = Unused
    /\ cg = Unused
    /\ lk = [round |-> 1, first |-> Unused, build |-> Unused, rewinds |-> 0]
    /\ pm = Unused

NextRunner ==
    \/ Run
    \/ Resume
    \/ ExecPlain
    \/ ExecExit
    \/ ExecCall
    \/ ExecHandler
    \/ Rewind
    \/ OtherBuild

SpecRunner == InitRunner /\ [][NextRunner]_vars

(* C21: the switch loop and the computed-goto and direct-threaded loops    *)
(* produce identical observable behaviour for every handler and quota:     *)
(* when the same calls have been made on two runners of one handler with   *)
(* one quota, built with different dispatch loops, and no native callback  *)
(* has had a say, they have executed the same opcodes, consumed the same   *)
(* quota, thrown QuotaExceeded at the same point or not at all, and are in *)
(* the same state with the same instruction pointer, stack and results.    *)
C21_DispatchLoopsAgree ==
    (/\ lk.round = 2
     /\ Settled(Observed)
     /\ Len(hist.rets) = Len(lk.first.rets)
     /\ (phase = "idle") = (lk.first.phase = "idle")
     /\ lk.rewinds = 0 /\ lk.first.rewinds = 0
     /\ hist.calls = 0 /\ lk.first.calls = 0)
    => Observed = lk.first

(* C22: rewind() resets the instruction pointer to 0 and requires the      *)
(* value stack to be empty: whenever rewind() has completed, the           *)
(* instruction pointer it left is 0 and the stack size is 0.                *)
C22_RewindOnEmptyStack ==
    [][Rewind => (ip' = 0 /\ Len(stack') = 0)]_vars

(* C29: every binary opcode replaces the two topmost stack values a and b  *)
(* by a OP b for the operation the opcode names: after `load a; load b;    *)
(* <op>` has run on an empty stack, the stack holds the one value a OP b.  *)
C29_BinaryOpcodes ==
    \A op \in BinaryOps, a \in 0..MaxOperand, b \in 0..MaxOperand :
        LET ld == IF op \in {"PCMPEQ", "PCMPNE"} THEN "PLOAD" ELSE "ILOAD"
            x == IF ld = "PLOAD" THEN IPAddresses[a + 1] ELSE a
            y == IF ld = "PLOAD" THEN IPAddresses[b + 1] ELSE b
            named ==
                CASE op = "NADD" -> x + y
                  [] op = "NSUB" -> x - y
                  [] op = "NMUL" -> x * y
                  [] op = "NDIV" -> x \div y
                  [] op \in {"NCMPEQ", "PCMPEQ"} -> IF x = y THEN 1 ELSE 0
                  [] op \in {"NCMPNE", "PCMPNE"} -> IF x # y THEN 1 ELSE 0
                  [] op = "NCMPLE" -> IF x <= y THEN 1 ELSE 0
                  [] op = "NCMPGE" -> IF x >= y THEN 1 ELSE 0
                  [] op = "NCMPLT" -> IF x < y THEN 1 ELSE 0
                  [] op = "NCMPGT" -> IF x > y THEN 1 ELSE 0
                  [] op = "BAND" -> IF x # 0 /\ y # 0 THEN 1 ELSE 0
                  [] op = "BOR" -> IF x # 0 \/ y # 0 THEN 1 ELSE 0
                  [] op = "BXOR" -> IF (x # 0) # (y # 0) THEN 1 ELSE 0
        IN (/\ code = setCode(<<I1(ld, a), I1(ld, b), I0(op)>>)
            /\ phase = "idle"
            /\ Len(hist.rets) = 1
            /\ lk.rewinds = 0)
           => (Len(stack) = 1 /\ stack[1] = named)

(* ---------------------------------------------------------------------- *)
(* Runner: suspension, resumption, quota                                    *)
(* ---------------------------------------------------------------------- *)

(* C2: when the native callback invoked by a CALL or HANDLER instruction   *)
(* calls suspend(), the enclosing run()/resume() returns false, the        *)
(* runner is Suspended, and the recorded instruction pointer is the index  *)
(* of the instruction right after that CALL/HANDLER.                       *)
C2_SuspendReturnsFalse ==
    hist.callPc # -1 =>
        /\ phase = "idle"
        /\ state = "Suspended"
        /\ code[hist.callPc + 1].op \in {"CALL", "HANDLER"}
        /\ ip = hist.callPc + 1
        /\ Last(hist.rets) = [ret |-> FALSE, state |-> "Suspended",
                              ip |-> hist.callPc + 1]

(* A HANDLER in the middle of a handler body has suspended the run. *)
C2_Witness ==
    /\ hist.callPc > 0
    /\ code[hist.callPc + 1].op = "HANDLER"
    /\ state = "Suspended"
    /\ phase = "idle"

(* C3: resume() on a Suspended runner continues at the recorded            *)
(* instruction pointer with the value stack and the globals as they were   *)
(* when the suspended call returned; for the handler `f(); ret 0` whose    *)
(* native f suspends, run() returns false leaving the runner Suspended and *)
(* the following resume() returns false leaving it Inactive.               *)
C3_ResumeContinues ==
    /\ (hist.resumed /\ phase \in {"loop", "raised"}) =>
           /\ state = "Running"
           /\ pc = hist.snap.ip
           /\ stack = hist.snap.stack
           /\ globals = hist.snap.globals
    /\ (code = setCode(VMPrograms[2]) /\ hist.susps >= 1) =>
           /\ Len(hist.rets) >= 1 =>
                  /\ hist.rets[1].ret = FALSE
                  /\ hist.rets[1].state = "Suspended"
           /\ Len(hist.rets) >= 2 =>
                  /\ hist.rets[2].ret = FALSE
                  /\ hist.rets[2].state = "Inactive"

(* `f(); ret 0` has been run, suspended by f, and resumed to its end. *)
C3_Witness ==
    /\ code = setCode(VMPrograms[2])
    /\ hist.susps = 1
    /\ Len(hist.rets) = 2
    /\ state = "Inactive"
    /\ phase = "idle"

(* C4: when a finite quota is exhausted the runner raises QuotaExceeded    *)
(* with the instruction pointer at the opcode that was about to execute;   *)
(* with quota 1 the first opcode executes, the condition is raised before  *)
(* the second, and the instruction pointer is 1.                           *)
C4_QuotaIpAtUnexecuted ==
    phase = "raised" =>
        /\ ip = hist.failPc
        /\ (hist.quota0 = 1 /\ hist.rets = <<>>) =>
               (hist.executed = 1 /\ ip = 1)

(* ---------------------------------------------------------------------- *)
(* The SSA IR: Value, Instr, BasicBlock, IRHandler                          *)
(* ---------------------------------------------------------------------- *)
(* A Value is an entry of ir.obj: kind names its class ("free" when the    *)
(* storage is not allocated), data its literal or callee attribute, ops    *)
(* Instr::_operands (Null for nullptr), uses Value::_uses, parent          *)
(* Instr::_basicBlock, and code/preds/succs the BasicBlock's _code,        *)
(* _predecessors and _successors.  An IR state s is a record of obj,       *)
(* blocks (IRHandler::_blocks), held (the Instr owned by the caller) and   *)
(* abort: "none", or why the process stopped ("used": ~Value found users;  *)
(* "preds": ~BasicBlock found predecessors; "assert": another              *)
(* COREVM_ASSERT; "ub": an erase(end()), a null or an invalidated          *)
(* iterator was used).                                                     *)
MaxObj == 20

Null == 0

Ids == 1..MaxObj

FreeObj ==
    [kind |-> "free", data |-> 0, ops |-> <<>>, uses |-> <<>>,
     parent |-> Null, code |-> <<>>, preds |-> <<>>, succs |-> <<>>]

Terminators == {"br", "condbr", "ret"}

Has(q, x) == \E k \in 1..Len(q) : q[k] = x

Occ(q, x) == Cardinality({k \in 1..Len(q) : q[k] = x})

(* std::find followed by erase: drops the first occurrence of x. *)
RECURSIVE RemoveFirst(_, _)
RemoveFirst(q, x) ==
    IF q = <<>> THEN <<>>
    ELSE IF Head(q) = x THEN Tail(q)
    ELSE <<Head(q)>> \o RemoveFirst(Tail(q), x)

Fail(s, why) == IF s.abort = "none" THEN [s EXCEPT !.abort = why] ELSE s

isBlock(s, v) == v # Null /\ s.obj[v].kind = "block"

(* An addUse that records nothing. *)
addUse_m(s, v, user) == s

(* Value::addUse *)
addUse(s, v, user) == [s EXCEPT !.obj[v].uses = Append(@, user)]

(* Value::removeUse *)
removeUse(s, v, user) == [s EXCEPT !.obj[v].uses = RemoveFirst(@, user)]

(* A linkSuccessor that leaves the successor's predecessors alone. *)
linkSuccessor_m(s, b, succ) == [s EXCEPT !.obj[b].succs = Append(@, succ)]

(* BasicBlock::linkSuccessor *)
linkSuccessor(s, b, succ) ==
    LET t == [s EXCEPT !.obj[b].succs = Append(@, succ)]
    IN [t EXCEPT !.obj[succ].preds = Append(@, b)]

(* BasicBlock::unlinkSuccessor: erasing an entry that is not there is      *)
(* erase(end()).                                                           *)
unlinkSuccessor(s, b, succ) ==
    IF b = Null \/ ~Has(s.obj[succ].preds, b) \/ ~Has(s.obj[b].succs, succ)
    THEN Fail(s, "ub")
    ELSE LET t == [s EXCEPT !.obj[succ].preds = RemoveFirst(@, b)]
         IN [t EXCEPT !.obj[b].succs = RemoveFirst(@, succ)]

(* Instr::setOperand *)
setOperand(s, i, k, v) ==
    LET old == s.obj[i].ops[k]
        par == s.obj[i].parent
        s1 == [s EXCEPT !.obj[i].ops[k] = v]
        s2 == IF old = Null THEN s1
              ELSE LET t == removeUse(s1, old, i)
                   IN IF isBlock(t, old) THEN unlinkSuccessor(t, par, old)
                      ELSE t
        s3 == IF v = Null THEN s2
              ELSE LET t == addUse(s2, v, i)
                   IN IF ~isBlock(t, v) THEN t
                      ELSE IF par = Null THEN Fail(t, "ub")
                      ELSE linkSuccessor(t, par, v)
    IN s3

(* Instr::replaceOperand *)
replaceOperand(s, i, old, new) ==
    LET RECURSIVE from(_, _)
        from(t, k) ==
            IF k > Len(t.obj[i].ops) THEN t
            ELSE from(IF t.obj[i].ops[k] = old THEN setOperand(t, i, k, new)
                      ELSE t, k + 1)
    IN from(s, 1)

(* Instr::clearOperands *)
clearOperands(s, i) ==
    LET RECURSIVE from(_, _)
        from(t, k) ==
            IF k > Len(t.obj[i].ops) THEN t
            ELSE from(setOperand(t, i, k, Null), k + 1)
    IN [from(s, 1) EXCEPT !.obj[i].ops = <<>>]

(* A replaceAllUsesWith that stops after the first user. *)
replaceAllUsesWith_m(s, v, new) ==
    IF s.obj[v].uses = <<>> THEN s
    ELSE replaceOperand(s, Head(s.obj[v].uses), v, new)

(* Value::replaceAllUsesWith *)
replaceAllUsesWith(s, v, new) ==
    LET RECURSIVE each(_, _)
        each(t, users) ==
            IF users = <<>> THEN t
            ELSE each(replaceOperand(t, Head(users), v, new), Tail(users))
    IN each(s, s.obj[v].uses)

(* Instr::Instr: the new Instr i registers itself with every operand. *)
newInstr(s, i, kind, data, ops) ==
    LET RECURSIVE from(_, _)
        from(t, k) ==
            IF k > Len(ops) THEN t
            ELSE from(IF ops[k] = Null THEN t ELSE addUse(t, ops[k], i), k + 1)
    IN from([s EXCEPT !.obj[i] = [FreeObj EXCEPT !.kind = kind,
                                                 !.data = data,
                                                 !.ops = ops]], 1)

(* Value::~Value, and the release of the storage. *)
destroyValue(s, v) ==
    IF s.obj[v].uses # <<>> THEN Fail(s, "used")
    ELSE [s EXCEPT !.obj[v] = FreeObj]

(* Instr::~Instr followed by Value::~Value *)
destroyInstr(s, i) ==
    LET par == s.obj[i].parent
        RECURSIVE from(_, _)
        from(t, k) ==
            IF k > Len(s.obj[i].ops) THEN t
            ELSE LET op == s.obj[i].ops[k]
                     t1 == IF op = Null THEN t ELSE removeUse(t, op, i)
                     t2 == IF op # Null /\ par # Null /\ isBlock(t1, op)
                           THEN unlinkSuccessor(t1, par, op)
                           ELSE t1
                 IN from(t2, k + 1)
    IN destroyValue(from(s, 1), i)

(* BasicBlock::getTerminator *)
getTerminator(s, b) ==
    LET c == s.obj[b].code
    IN IF c = <<>> THEN Null
       ELSE IF s.obj[Last(c)].kind \in Terminators THEN Last(c)
       ELSE Null

(* BasicBlock::remove; the caller owns the removed Instr. *)
remove(s, b, i) ==
    LET RECURSIVE from(_, _)
        from(t, k) ==
            IF k > Len(s.obj[i].ops) THEN t
            ELSE from(IF isBlock(t, s.obj[i].ops[k])
                      THEN unlinkSuccessor(t, b, s.obj[i].ops[k])
                      ELSE t, k + 1)
        s1 == IF i = getTerminator(s, b) THEN from(s, 1) ELSE s
    IN [s1 EXCEPT !.obj[b].code = RemoveFirst(@, i), !.obj[i].parent = Null]

(* BasicBlock::push_back *)
push_back(s, b, i) ==
    LET RECURSIVE from(_, _)
        from(t, k) ==
            IF k > Len(s.obj[i].ops) THEN t
            ELSE from(IF isBlock(t, s.obj[i].ops[k])
                      THEN linkSuccessor(t, b, s.obj[i].ops[k])
                      ELSE t, k + 1)
        s1 == [s EXCEPT !.obj[i].parent = b]
        s2 == IF s1.obj[i].kind \in Terminators THEN from(s1, 1) ELSE s1
    IN [s2 EXCEPT !.obj[b].code = Append(@, i)]

(* BasicBlock::replace; the caller owns old afterwards. *)
replace(s, b, old, new) ==
    LET s1 == replaceAllUsesWith(s, old, new)
        c == s1.obj[b].code
    IN IF old = getTerminator(s1, b)
       THEN push_back(remove(s1, b, old), b, new)
       ELSE [s1 EXCEPT !.obj[old].parent = Null,
                       !.obj[new].parent = b,
                       !.obj[b].code = [k \in 1..Len(c) |->
                                           IF c[k] = old THEN new ELSE c[k]]]

(* BasicBlock::~BasicBlock and the release of the block. *)
destroyBlock(s, bb) ==
    LET RECURSIVE drain(_)
        drain(t) ==
            IF t.obj[bb].code = <<>> \/ t.abort # "none" THEN t
            ELSE LET i == Last(t.obj[bb].code)
                 IN drain(destroyInstr(remove(t, bb, i), i))
        RECURSIVE unlink(_, _)
        unlink(t, q) ==
            IF q = <<>> THEN t ELSE unlink(unlinkSuccessor(t, bb, Head(q)),
                                           Tail(q))
        s1 == drain(s)
    IN IF s1.abort # "none" THEN s1
       ELSE IF s1.obj[bb].preds # <<>> THEN Fail(s1, "preds")
       ELSE destroyValue(unlink(s1, s1.obj[bb].succs), bb)

(* IRHandler::erase *)
erase(s, bb) ==
    IF ~Has(s.blocks, bb) THEN Fail(s, "assert")
    ELSE LET RECURSIVE clear(_, _)
             clear(t, k) ==
                 IF k > Len(s.obj[bb].code) THEN t
                 ELSE clear(clearOperands(t, s.obj[bb].code[k]), k + 1)
             s1 == clear(s, 1)
             term == getTerminator(s1, bb)
             s2 == IF term = Null THEN s1
                   ELSE destroyInstr(remove(s1, bb, term), term)
         IN IF s2.abort # "none" THEN s2
            ELSE destroyBlock([s2 EXCEPT !.blocks = RemoveFirst(@, bb)], bb)

(* BasicBlock::merge_back *)
merge_back(s, b, bb) ==
    LET RECURSIVE relink(_, _, _)
        relink(t, i, k) ==
            IF k > Len(t.obj[i].ops) THEN t
            ELSE LET op == t.obj[i].ops[k]
                 IN relink(IF isBlock(t, op)
                           THEN LET u == unlinkSuccessor(t, bb, op)
                                IN IF u.abort # "none" THEN u
                                   ELSE linkSuccessor(u, b, op)
                           ELSE t, i, k + 1)
        RECURSIVE move(_, _)
        move(t, k) ==
            IF k > Len(s.obj[bb].code) THEN t
            ELSE LET i == s.obj[bb].code[k]
                     t1 == [t EXCEPT !.obj[i].parent = b]
                     t2 == IF t1.obj[i].kind \in Terminators
                           THEN relink(t1, i, 1) ELSE t1
                 IN move([t2 EXCEPT !.obj[b].code = Append(@, i)], k + 1)
        RECURSIVE unlink(_, _)
        unlink(t, q) ==
            IF q = <<>> THEN t
            ELSE unlink(unlinkSuccessor(t, b, Head(q)), Tail(q))
        s1 == [move(s, 1) EXCEPT !.obj[bb].code = <<>>]
        s2 == unlink(s1, s1.obj[bb].succs)
    IN IF s2.abort # "none" THEN s2 ELSE erase(s2, bb)

(* IRHandler::setEntryBlock *)
setEntryBlock(s, bb) ==
    IF ~Has(s.blocks, bb) THEN Fail(s, "assert")
    ELSE [s EXCEPT !.blocks = <<bb>> \o RemoveFirst(@, bb)]

isAfter_m(s, bb, afterThat) ==
    \E k \in 1..(Len(s.blocks) - 1) :
        /\ s.blocks[k + 1] = bb
        /\ s.blocks[k] = afterThat

(* IRHandler::isAfter *)
isAfter(s, bb, afterThat) ==
    \E k \in 1..(Len(s.blocks) - 1) :
        /\ s.blocks[k] = bb
        /\ \A j \in 1..(k - 1) : s.blocks[j] # bb
        /\ s.blocks[k + 1] = afterThat

(* The storage a fresh Instr is given: the lowest free address. *)
alloc(s) ==
    CHOOSE x \in Ids : /\ s.obj[x].kind = "free"
                       /\ \A y \in 1..(x - 1) : s.obj[y].kind # "free"

(* bb->remove(term) whose result is dropped, then                          *)
(* bb->push_back(std::make_unique<...>(ops)).                              *)
retarget(s, bb, term, kind, ops) ==
    LET s1 == destroyInstr(remove(s, bb, term), term)
    IN IF s1.abort # "none" THEN s1
       ELSE LET i == alloc(s1)
            IN push_back(newInstr(s1, i, kind, 0, ops), bb, i)

(* for (BasicBlock* pred: bb->predecessors())                              *)
(*     pred->getTerminator()->replaceOperand(bb, new);                     *)
(* replaceOperand erases from the vector the loop is walking.  The walk    *)
(* reads slot k of the vector's storage in its k-th round, where the       *)
(* slots behind the shrunken vector keep what they last held (tail); a     *)
(* build with checked iterators stops at the first use of the invalidated  *)
(* iterator (trap).                                                        *)
walkPredecessors(s, bb, new, trap) ==
    LET n0 == Len(s.obj[bb].preds)
        RECURSIVE step(_, _, _)
        step(t, tail, k) ==
            IF k > n0 \/ t.abort # "none" THEN t
            ELSE LET live == t.obj[bb].preds
                     pred == (live \o tail)[k]
                     term == getTerminator(t, pred)
                     t1 == IF term = Null THEN Fail(t, "ub")
                           ELSE replaceOperand(t, term, bb, new)
                     live1 == t1.obj[bb].preds
                     RECURSIVE stale(_, _)
                     stale(lv, tl) ==
                         IF Len(lv) <= Len(live1) THEN tl
                         ELSE stale(RemoveFirst(lv, pred), <<Last(lv)>> \o tl)
                 IN IF live1 # live /\ trap THEN Fail(t1, "ub")
                    ELSE step(t1, stale(live, tail), k + 1)
    IN step(s, <<>>, 1)

(* transform::emptyBlockElimination; every pass yields the new IR and     *)
(* its return value.                                                       *)
emptyBlockElimination(s, trap) ==
    LET RECURSIVE scan(_, _, _)
        scan(t, k, eliminated) ==
            IF k > Len(s.blocks) \/ t.abort # "none"
            THEN [s |-> t, eliminated |-> eliminated]
            ELSE LET bb == s.blocks[k]
                     br == getTerminator(t, bb)
                 IN IF Len(t.obj[bb].code) = 1 /\ br # Null
                       /\ t.obj[br].kind = "br"
                    THEN IF bb = Head(t.blocks)
                         THEN [s |-> setEntryBlock(t, bb),
                               eliminated |-> Append(eliminated, bb)]
                         ELSE scan(walkPredecessors(t, bb, t.obj[br].ops[1],
                                                    trap),
                                   k + 1, Append(eliminated, bb))
                    ELSE scan(t, k + 1, eliminated)
        RECURSIVE eraseAll(_, _)
        eraseAll(t, q) ==
            IF q = <<>> \/ t.abort # "none" THEN t
            ELSE eraseAll(erase(t, Head(q)), Tail(q))
        r == scan(s, 1, <<>>)
    IN [s |-> eraseAll(r.s, r.eliminated), changed |-> r.eliminated # <<>>]

(* transform::eliminateUnusedBlocks *)
eliminateUnusedBlocks(s) ==
    LET unused == SelectSeq(s.blocks,
                            LAMBDA bb : /\ bb # Head(s.blocks)
                                        /\ s.obj[bb].preds = <<>>)
        RECURSIVE eraseAll(_, _)
        eraseAll(t, q) ==
            IF q = <<>> \/ t.abort # "none" THEN t
            ELSE eraseAll(erase(t, Head(q)), Tail(q))
    IN [s |-> eraseAll(s, unused), changed |-> unused # <<>>]

(* transform::rewriteCondBrToSameBranches *)
rewriteCondBrToSameBranches(s) ==
    LET RECURSIVE scan(_)
        scan(k) ==
            IF k > Len(s.blocks) THEN [s |-> s, changed |-> FALSE]
            ELSE LET bb == s.blocks[k]
                     condbr == getTerminator(s, bb)
                 IN IF condbr # Null /\ s.obj[condbr].kind = "condbr"
                    THEN IF s.obj[condbr].ops[2] # s.obj[condbr].ops[3]
                         THEN [s |-> s, changed |-> FALSE]
                         ELSE [s |-> retarget(s, bb, condbr, "br",
                                              <<s.obj[condbr].ops[2]>>),
                               changed |-> TRUE]
                    ELSE scan(k + 1)
    IN scan(1)

(* A call that does without the test of the callee's attribute. *)
isDead_m(s, i) ==
    /\ s.obj[i].kind = "call"
    /\ s.obj[s.obj[i].ops[1]].data \in {1, 2}
    /\ s.obj[i].uses = <<>>

(* eliminateUnusedInstr: the instruction it removes.  data of a callee: 1  *)
(* when its native callback is side-effect free and returns a value, 2     *)
(* when it only returns a value, 3 when it is only side-effect free, 0     *)
(* when it is neither.                                                     *)
isDead(s, i) ==
    /\ s.obj[i].kind = "call"
    /\ s.obj[s.obj[i].ops[1]].data \in {1, 3}
    /\ s.obj[s.obj[i].ops[1]].data \in {1, 2}
    /\ s.obj[i].uses = <<>>

(* transform::eliminateUnusedInstr *)
eliminateUnusedInstr(s) ==
    LET dead(i) == isDead(s, i)
        RECURSIVE scan(_, _)
        scan(k, j) ==
            IF k > Len(s.blocks) THEN [s |-> s, changed |-> FALSE]
            ELSE IF j > Len(s.obj[s.blocks[k]].code) THEN scan(k + 1, 1)
            ELSE LET bb == s.blocks[k]
                     i == s.obj[bb].code[j]
                 IN IF dead(i)
                    THEN [s |-> destroyInstr(remove(s, bb, i), i),
                          changed |-> TRUE]
                    ELSE scan(k, j + 1)
    IN scan(1, 1)

(* transform::eliminateLinearBr *)
eliminateLinearBr(s) ==
    LET RECURSIVE scan(_)
        scan(k) ==
            IF k > Len(s.blocks) THEN [s |-> s, changed |-> FALSE]
            ELSE LET bb == s.blocks[k]
                     br == getTerminator(s, bb)
                 IN IF br # Null /\ s.obj[br].kind = "br"
                    THEN LET nextBB == s.obj[br].ops[1]
                         IN IF s.obj[nextBB].preds # <<bb>>
                            THEN [s |-> s, changed |-> FALSE]
                            ELSE LET s1 == destroyInstr(remove(s, bb, br), br)
                                 IN [s |-> IF nextBB = bb
                                              /\ s1.obj[bb].code # <<>>
                                           THEN Fail(s1, "ub")
                                           ELSE merge_back(s1, bb, nextBB),
                                     changed |-> TRUE]
                    ELSE scan(k + 1)
    IN scan(1)

(* A fold that takes the true block for the first of the pair whatever    *)
(* the constant is.                                                        *)
taken_m(s, condbr) == s.obj[condbr].ops[2]

(* foldConstantCondBr: use.first, the block the constant condition leads   *)
(* to.                                                                     *)
taken(s, condbr) ==
    IF s.obj[s.obj[condbr].ops[1]].data # 0
    THEN s.obj[condbr].ops[2] ELSE s.obj[condbr].ops[3]

(* transform::foldConstantCondBr *)
foldConstantCondBr(s) ==
    LET RECURSIVE scan(_)
        scan(k) ==
            IF k > Len(s.blocks) THEN [s |-> s, changed |-> FALSE]
            ELSE LET bb == s.blocks[k]
                     condbr == getTerminator(s, bb)
                     cond == IF condbr = Null THEN Null
                             ELSE s.obj[condbr].ops[1]
                 IN IF condbr # Null /\ s.obj[condbr].kind = "condbr"
                       /\ cond # Null /\ s.obj[cond].kind = "bool"
                    THEN [s |-> retarget(s, bb, condbr, "br",
                                         <<taken(s, condbr)>>),
                          changed |-> TRUE]
                    ELSE scan(k + 1)
    IN scan(1)

(* A rewriteBrToExit that reports a change whatever it did. *)
rewriteBrToExit_m(s) == [s |-> s, changed |-> TRUE]

(* transform::rewriteBrToExit *)
rewriteBrToExit(s) ==
    LET RECURSIVE scan(_)
        scan(k) ==
            IF k > Len(s.blocks) THEN [s |-> s, changed |-> FALSE]
            ELSE LET bb == s.blocks[k]
                     br == getTerminator(s, bb)
                 IN IF br # Null /\ s.obj[br].kind = "br"
                    THEN LET targetBB == s.obj[br].ops[1]
                             ret == getTerminator(s, targetBB)
                         IN IF Len(s.obj[targetBB].code) # 1
                               \/ isAfter(s, bb, targetBB)
                            THEN [s |-> s, changed |-> FALSE]
                            ELSE IF ret # Null /\ s.obj[ret].kind = "ret"
                            THEN [s |-> retarget(s, bb, br, "ret",
                                                 <<s.obj[ret].ops[1]>>),
                                  changed |-> TRUE]
                            ELSE scan(k + 1)
                    ELSE scan(k + 1)
    IN scan(1)

(* mergeSameBlocks, with isSameInstructions and isSameSuccessors *)
mergeSameBlocks(s, trap) ==
    LET same(a, b) ==
            /\ Len(s.obj[a].code) = Len(s.obj[b].code)
            /\ \A k \in 1..Len(s.obj[a].code) :
                   /\ s.obj[s.obj[a].code[k]].kind = s.obj[s.obj[b].code[k]].kind
                   /\ s.obj[s.obj[a].code[k]].ops = s.obj[s.obj[b].code[k]].ops
            /\ s.obj[a].succs = s.obj[b].succs
        \* uniq.front() of the list bb was put on, or Null if bb opened one
        front(k) ==
            LET earlier == {j \in 1..(k - 1) : same(s.blocks[k], s.blocks[j])}
            IN IF earlier = {} THEN Null
               ELSE s.blocks[CHOOSE j \in earlier : \A m \in earlier : j <= m]
        RECURSIVE each(_, _)
        each(t, k) ==
            IF k > Len(s.blocks) \/ t.abort # "none" THEN t
            ELSE each(IF front(k) = Null THEN t
                      ELSE walkPredecessors(t, s.blocks[k], front(k), trap),
                      k + 1)
    IN [s |-> each(s, 1), changed |-> FALSE]

(* BasicBlock::verify on every block (IRHandler::verify) *)
verify(s) ==
    \A k \in 1..Len(s.blocks) :
        LET c == s.obj[s.blocks[k]].code
        IN /\ c # <<>>
           /\ s.obj[Last(c)].kind \in Terminators
           /\ \A j \in 1..(Len(c) - 1) : s.obj[c[j]].kind \notin Terminators

(* The constants of the IRProgram: the numbers 0 and 1, the boolean true,  *)
(* the builtin functions f (no result), g (side-effect free, with a        *)
(* result), the builtin handler h and the string "abc".                    *)
IRConstants ==
    << [kind |-> "int", data |-> 0], [kind |-> "int", data |-> 1],
       [kind |-> "bool", data |-> 1], [kind |-> "func", data |-> 0],
       [kind |-> "func", data |-> 1], [kind |-> "hand", data |-> 0],
       [kind |-> "str", data |-> 0] >>

(* IRHandler::createBlock *)
createBlock(s) ==
    LET b == alloc(s)
    IN [s EXCEPT !.obj[b] = [FreeObj EXCEPT !.kind = "block"],
                 !.blocks = Append(@, b)]

(* An IRProgram with its constants and one handler without blocks. *)
IREmpty ==
    [obj |-> [x \in Ids |->
                 IF x <= Len(IRConstants)
                 THEN [FreeObj EXCEPT !.kind = IRConstants[x].kind,
                                      !.data = IRConstants[x].data]
                 ELSE FreeObj],
     blocks |-> <<>>, held |-> Null, abort |-> "none", n |-> 0,
     last |-> "none"]

(* IRBuilder: createBlock for each block of h, then insert() of each       *)
(* instruction; h lists per block the [kind, ops] of its instructions.     *)
build(h) ==
    LET RECURSIVE blocks(_, _)
        blocks(t, k) ==
            IF k > Len(h) THEN t
            ELSE CHOOSE w \in {blocks(u, k + 1) : u \in {createBlock(t)}} : TRUE
        RECURSIVE fill(_, _, _)
        fill(t, k, j) ==
            IF k > Len(h) THEN t
            ELSE IF j > Len(h[k]) THEN fill(t, k + 1, 1)
            ELSE CHOOSE w \in
                     {fill(u, k, j + 1) :
                         u \in {LET i == alloc(t)
                                IN push_back(newInstr(t, i, h[k][j].kind, 0,
                                                      h[k][j].ops),
                                             t.blocks[k], i)}} : TRUE
    IN CHOOSE w \in {fill(u, 1, 1) : u \in {blocks(IREmpty, 1)}} : TRUE

(* The handlers the IR operations are tried on, as the IRBuilder leaves    *)
(* them: blocks are Values 8, 9, ... in creation order, instructions       *)
(* follow.  if/else with empty arms; an empty block with three             *)
(* predecessors; an unreachable chain of two blocks; a loop back to the    *)
(* entry block; a condbr on a constant; a handler whose first block is     *)
(* not terminated yet.                                                     *)
IRHandlers ==
    LET I(k, o) == [kind |-> k, ops |-> o]
    IN << << <<I("call", <<5>>), I("condbr", <<12, 9, 10>>)>>,
             <<I("br", <<11>>)>>, <<I("br", <<11>>)>>, <<I("ret", <<1>>)>> >>,
          << <<I("call", <<5>>), I("condbr", <<13, 9, 11>>)>>,
             <<I("condbr", <<13, 11, 10>>)>>,
             <<I("call", <<4>>), I("br", <<11>>)>>,
             <<I("br", <<12>>)>>, <<I("ret", <<1>>)>> >>,
          << <<I("ret", <<1>>)>>, <<I("call", <<5>>), I("br", <<10>>)>>,
             <<I("call", <<4, 12>>), I("ret", <<2>>)>> >>,
          << <<I("br", <<9>>)>>,
             <<I("call", <<5>>), I("condbr", <<12, 8, 10>>)>>,
             <<I("ret", <<1>>)>> >>,
          << <<I("condbr", <<3, 9, 10>>)>>,
             <<I("call", <<5>>), I("br", <<10>>)>>, <<I("ret", <<1>>)>> >>,
          << <<I("call", <<4>>)>>, <<I("call", <<5>>), I("ret", <<1>>)>> >> >>

(* What an operation leaves: its result, or the IR it stopped the process  *)
(* in.                                                                     *)
Commit(s, name, cost) ==
    /\ ir' = IF s.abort = "none"
             THEN [s EXCEPT !.n = ir.n + cost, !.last = name]
             ELSE [ir EXCEPT !.abort = s.abort, !.last = name]
    /\ UNCHANGED <<vmVars, cg, lk, pm>>

(* A caller of the IR interface keeps to its requirements. *)
Mutation(s, name) ==
    /\ ir.n < MaxMutations
    /\ s.abort = "none"
    /\ Commit(s, name, 1)

Blocks == {x \in Ids : ir.obj[x].kind = "block"}

Attached == {x \in Ids : ir.obj[x].parent # Null}

(* The values an operand that is not a block may be. *)
Operands ==
    {2, 3} \cup {x \in Attached : /\ ir.obj[x].kind = "call"
                                  /\ ir.obj[ir.obj[x].ops[1]].data # 0}

(* Whether operand k of instruction i is a block, a value or the callee. *)
Slot(i, k) ==
    CASE ir.obj[i].kind = "br" -> "block"
      [] ir.obj[i].kind = "condbr" -> IF k = 1 THEN "value" ELSE "block"
      [] ir.obj[i].kind = "call" -> IF k = 1 THEN "callee" ELSE "value"
      [] OTHER -> "literal"

(* std::make_unique<BrInstr|CondBrInstr|RetInstr|CallInstr>(...) *)
IRCreate ==
    /\ ir.abort = "none" /\ ir.held = Null
    /\ \E x \in Ids : ir.obj[x].kind = "free"
    /\ \E c \in {<<"br", <<b>>>> : b \in Blocks}
               \cup {<<"condbr", <<v, b1, b2>>>> :
                        v \in Operands, b1 \in Blocks, b2 \in Blocks}
               \cup {<<"ret", <<2>>>>}
               \cup {<<"call", <<f>>>> : f \in {4, 5}}
               \cup {<<"call", <<f, v>>>> : f \in {4, 5}, v \in Operands} :
          LET i == alloc(ir)
          IN Mutation([newInstr(ir, i, c[1], 0, c[2]) EXCEPT !.held = i],
                      "new")

(* BasicBlock::push_back of the held Instr onto a block that has no        *)
(* terminator yet.                                                         *)
IRPushBack ==
    /\ ir.abort = "none" /\ ir.held # Null
    /\ ir.obj[ir.held].ops # <<>>
    /\ \E b \in Blocks :
          /\ getTerminator(ir, b) = Null
          /\ Mutation([push_back(ir, b, ir.held) EXCEPT !.held = Null],
                      "push_back")

(* BasicBlock::remove *)
IRRemove ==
    /\ ir.abort = "none" /\ ir.held = Null
    /\ \E i \in Attached :
          Mutation([remove(ir, ir.obj[i].parent, i) EXCEPT !.held = i],
                   "remove")

(* The owner of the held Instr lets go of it. *)
IRDestroy ==
    /\ ir.abort = "none" /\ ir.held # Null
    /\ Mutation([destroyInstr(ir, ir.held) EXCEPT !.held = Null], "destroy")

(* BasicBlock::replace of an instruction by the held one *)
IRReplace ==
    /\ ir.abort = "none" /\ ir.held # Null
    /\ ir.obj[ir.held].ops # <<>>
    /\ \E old \in Attached :
          /\ \/ old = getTerminator(ir, ir.obj[old].parent)
             \/ ir.obj[ir.held].kind \notin Terminators
          /\ Mutation([replace(ir, ir.obj[old].parent, old, ir.held)
                           EXCEPT !.held = old], "replace")

(* BasicBlock::merge_back *)
IRMergeBack ==
    /\ ir.abort = "none"
    /\ \E b \in Blocks, bb \in Blocks :
          /\ b # bb
          /\ getTerminator(ir, b) = Null
          /\ Mutation(merge_back(ir, b, bb), "merge_back")

(* Instr::setOperand on an instruction of a block *)
IRSetOperand ==
    /\ ir.abort = "none"
    /\ \E i \in Attached : \E k \in 1..Len(ir.obj[i].ops) :
       \E v \in IF Slot(i, k) = "block" THEN Blocks
                ELSE IF Slot(i, k) = "value" THEN Operands ELSE {} :
          /\ v # ir.obj[i].ops[k]
          /\ Mutation(setOperand(ir, i, k, v), "setOperand")

(* Instr::replaceOperand on an instruction of a block *)
IRReplaceOperand ==
    /\ ir.abort = "none"
    /\ \E i \in Attached : \E k \in 1..Len(ir.obj[i].ops) :
       \E v \in IF Slot(i, k) = "block" THEN Blocks
                ELSE IF Slot(i, k) = "value" THEN Operands ELSE {} :
          /\ v # ir.obj[i].ops[k]
          /\ Mutation(replaceOperand(ir, i, ir.obj[i].ops[k], v),
                      "replaceOperand")

(* Value::replaceAllUsesWith on a block or an operand value that is used;  *)
(* lk keeps the call's arguments and the operand slots that held v.        *)
IRReplaceAllUsesWith ==
    /\ ir.abort = "none"
    /\ ir.n < MaxMutations
    /\ \E v \in Blocks \cup Operands :
       \E w \in (IF v \in Blocks THEN Blocks ELSE Operands) \ {v} :
       \E r \in {replaceAllUsesWith(ir, v, w)} :
          /\ ir.obj[v].uses # <<>>
          /\ r.abort = "none"
          /\ ir' = [r EXCEPT !.n = ir.n + 1, !.last = "replaceAllUsesWith"]
          /\ lk' = [v |-> v, w |-> w,
                    slots |-> {sl \in Ids \X (1..3) :
                                  /\ sl[2] <= Len(ir.obj[sl[1]].ops)
                                  /\ ir.obj[sl[1]].ops[sl[2]] = v}]
    /\ UNCHANGED <<vmVars, cg, pm>>

(* Instr::clearOperands on the held Instr, ahead of its destruction *)
IRClearOperands ==
    /\ ir.abort = "none" /\ ir.held # Null
    /\ ir.obj[ir.held].ops # <<>>
    /\ Mutation(clearOperands(ir, ir.held), "clearOperands")

(* IRHandler::erase *)
IRErase ==
    /\ ir.abort = "none"
    /\ \E b \in Blocks : Mutation(erase(ir, b), "erase")

(* IRHandler::createBlock *)
IRCreateBlock ==
    /\ ir.abort = "none"
    /\ \E x \in Ids : ir.obj[x].kind = "free"
    /\ Mutation(createBlock(ir), "createBlock")

(* A transform pass is run on a handler that passes verify(); a run that   *)
(* leaves the handler as it was is no step.                                *)
Pass(r, name) ==
    /\ ir.abort = "none" /\ ir.held = Null
    /\ verify(ir)
    /\ r.s # ir
    /\ Commit(r.s, name, 0)

IREmptyBlockElimination ==
    \E trap \in BOOLEAN :
        Pass(emptyBlockElimination(ir, trap), "emptyBlockElimination")

IREliminateUnusedBlocks ==
    Pass(eliminateUnusedBlocks(ir), "eliminateUnusedBlocks")

IRRewriteCondBrToSameBranches ==
    Pass(rewriteCondBrToSameBranches(ir), "rewriteCondBrToSameBranches")

IREliminateUnusedInstr ==
    Pass(eliminateUnusedInstr(ir), "eliminateUnusedInstr")

IREliminateLinearBr == Pass(eliminateLinearBr(ir), "eliminateLinearBr")

IRFoldConstantCondBr == Pass(foldConstantCondBr(ir), "foldConstantCondBr")

IRRewriteBrToExit == Pass(rewriteBrToExit(ir), "rewriteBrToExit")

IRMergeSameBlocks ==
    \E trap \in BOOLEAN : Pass(mergeSameBlocks(ir, trap), "mergeSameBlocks")

InitIR ==
    /\ \E k \in 1..Len(IRHandlers) : ir = build(IRHandlers[k])
    /\ code = <<>> /\ natFuncs = <<>> /\ natHandlers = <<>>
    /\ numbers = <<>>
    /\ dispatch = "switch" /\ quota = NoQuota /\ state = "Inactive"
    /\ ip = 0 /\ pc = 0 /\ stack = <<>> /\ globals = <<>>
    /\ phase = "off" /\ hist = Hist0
    /\ cg = Unused /\ lk = Unused /\ pm = Unused

NextIR ==
    \/ IRCreate
    \/ IRPushBack
    \/ IRRemove
    \/ IRDestroy
    \/ IRReplace
    \/ IRMergeBack
    \/ IRSetOperand
    \/ IRReplaceOperand
    \/ IRClearOperands
    \/ IRErase
    \/ IRCreateBlock
    \/ IREmptyBlockElimination
    \/ IREliminateUnusedBlocks
    \/ IRRewriteCondBrToSameBranches
    \/ IREliminateUnusedInstr
    \/ IREliminateLinearBr
    \/ IRFoldConstantCondBr
    \/ IRRewriteBrToExit
    \/ IRMergeSameBlocks

SpecIR == InitIR /\ [][NextIR]_vars

(* The instructions that exist, in a block or held by a caller. *)
Instrs == {x \in Ids : ir.obj[x].kind \in Terminators \cup {"call"}}

C7_NoDestroyWhileReferenced ==
    /\ ir.abort \notin {"used", "preds"}
    /\ \A x \in Ids :
          ir.obj[x].kind # "free" =>
              \A y \in {ir.obj[x].ops[k] : k \in 1..Len(ir.obj[x].ops)}
                       \cup {ir.obj[x].preds[k] : k \in 1..Len(ir.obj[x].preds)}
                       \cup {ir.obj[x].succs[k] : k \in 1..Len(ir.obj[x].succs)} :
                  y # Null => ir.obj[y].kind # "free"

(* ---------------------------------------------------------------------- *)
(* TargetCodeGenerator: the code of one handler, the generator's           *)
(* simulated stack of Values, and for every emitted instruction the size   *)
(* of that stack when emitInstr was called.  For an observer it also      *)
(* keeps that stack itself (stks), and with the pc of the last emitted     *)
(* instruction every Value changeStack pushed (made), and the loads of     *)
(* non-constant Values (lds).                                              *)
CG0 ==
    [code |-> <<>>, depth |-> <<>>, stk |-> <<>>, jumps |-> {},
     funcs |-> <<>>, hands |-> <<>>, abort |-> FALSE, ors |-> {},
     nums |-> <<>>, loads |-> {}, stks |-> <<>>, made |-> {}, lds |-> {},
     entry |-> <<>>]

(* TargetCodeGenerator::emitInstr *)
emitInstr(g, in) ==
    [g EXCEPT !.code = Append(@, in), !.depth = Append(@, Len(g.stk)),
              !.stks = Append(@, g.stk)]

(* TargetCodeGenerator::changeStack, pop and push *)
changeStack(g, pops, pushValue) ==
    IF pops > Len(g.stk) THEN [g EXCEPT !.abort = TRUE]
    ELSE LET t == DropLast(g.stk, pops)
         IN IF pushValue = Null THEN [g EXCEPT !.stk = t]
            ELSE [g EXCEPT !.stk = Append(t, pushValue),
                           !.made = @ \cup {[pc |-> Len(g.code) - 1,
                                              v |-> pushValue]}]

(* TargetCodeGenerator::getStackPointer(value): -1 if not on the stack *)
getStackPointer(g, v) ==
    IF Has(g.stk, v)
    THEN (CHOOSE k \in 1..Len(g.stk) :
              g.stk[k] = v /\ \A j \in 1..(k - 1) : g.stk[j] # v) - 1
    ELSE -1

(* ConstantPool::ensureValue on a table of the pool *)
ensureValue(table, sig) ==
    IF Has(table, sig) THEN table ELSE Append(table, sig)

(* The width of an instruction's operand (vm/Instruction.h: Operand). *)
OperandBits == 16

(* std::numeric_limits<Operand>::max() *)
OperandMax == 2 ^ OperandBits - 1

(* makeInstruction(opc, op1): the CoreNumber is converted to an Operand *)
toOperand(number) == number % (2 ^ OperandBits)

(* TargetCodeGenerator::emitLoad; loads collects the pcs of the loads of   *)
(* integer constants with the constant loaded.                             *)
emitLoad(g, s, v) ==
    IF s.obj[v].kind = "int"
    THEN LET number == s.obj[v].data
             pool == ensureValue(g.nums, number)
             at == [pc |-> Len(g.code), number |-> number]
             t == [g EXCEPT !.loads = @ \cup {at}]
         IN IF number <= OperandMax
            THEN changeStack(emitInstr(t, I1("ILOAD", toOperand(number))), 0, v)
            ELSE changeStack(
                     emitInstr([t EXCEPT !.nums = pool],
                               I1("NLOAD", CHOOSE k \in 0..(Len(pool) - 1) :
                                               pool[k + 1] = number)), 0, v)
    ELSE IF s.obj[v].kind = "bool"
    THEN changeStack(emitInstr(g, I1("ILOAD", s.obj[v].data)), 0, v)
    ELSE IF s.obj[v].kind = "str"
    THEN changeStack(emitInstr(g, I1("SLOAD", 0)), 0, v)
    ELSE LET si == getStackPointer(g, v)
             \* for an observer: the k-th load of a non-constant, what it
             \* emitted, and the pc of the instruction emitted after it
             seen(t, how) ==
                 [t EXCEPT !.lds = @ \cup
                     {[k |-> Cardinality(g.lds) + 1, pc |-> Len(t.code),
                       v |-> v, emitted |-> how,
                       below |-> si # Len(g.stk) - 1,
                       uses |-> Len(s.obj[v].uses)]}]
         IN IF si = -1 THEN [g EXCEPT !.abort = TRUE]
            ELSE IF si = Len(g.stk) - 1 THEN seen(g, "none")
            ELSE IF Len(s.obj[v].uses) = 1
            THEN seen(emitInstr(g, I1("STACKROT", si)), "STACKROT")
            ELSE seen(changeStack(emitInstr(g, I1("LOAD", si)), 0, v), "LOAD")

(* The opcode the visit of a binary or unary instruction hands to          *)
(* emitBinary, emitBinaryAssoc or emitUnary.                               *)
binaryOpcode(kind) ==
    CASE kind = "ncmpeq" -> "NCMPEQ"
      [] kind = "band" -> "BAND"
      [] kind = "bor" -> "BAND"
      [] kind = "bxor" -> "BXOR"
      [] kind = "bnot" -> "BNOT"
      [] kind = "ineg" -> "NNEG"
      [] kind = "iadd" -> "NADD"
      [] kind = "isub" -> "NSUB"
      [] kind = "imul" -> "NMUL"
      [] kind = "idiv" -> "NDIV"
      [] kind = "ncmpne" -> "NCMPNE"
      [] kind = "ncmple" -> "NCMPLE"
      [] kind = "ncmpge" -> "NCMPGE"
      [] kind = "ncmplt" -> "NCMPLT"
      [] kind = "ncmpgt" -> "NCMPGT"
      [] kind = "slen" -> "SLEN"
      [] kind = "sadd" -> "SADD"
      [] kind = "scmpeq" -> "SCMPEQ"
      [] kind = "scmpne" -> "SCMPNE"
      [] kind = "scmple" -> "SCMPLE"
      [] kind = "scmpge" -> "SCMPGE"
      [] kind = "scmplt" -> "SCMPLT"
      [] kind = "scmpgt" -> "SCMPGT"
      [] kind = "scmpbeg" -> "SCMPBEG"
      [] kind = "scmpend" -> "SCMPEND"
      [] kind = "sin" -> "SCONTAINS"

(* TargetCodeGenerator::visit(...) of one instruction i of block bb; ors   *)
(* collects the pcs of the opcodes emitted for BOrInstr.                   *)
visit(g, s, bb, i) ==
    LET o == s.obj[i]
        argc == Len(o.ops) - 1
        RECURSIVE loads(_, _)
        loads(t, k) ==
            IF k > Len(o.ops) THEN t ELSE loads(emitLoad(t, s, o.ops[k]), k + 1)
        id(table) == CHOOSE k \in 0..(Len(table) - 1) : table[k + 1] = o.ops[1]
        jump(t, op, target) ==
            [emitInstr(t, I1(op, 0))
                 EXCEPT !.jumps = @ \cup {[pc |-> Len(t.code), to |-> target]}]
        condJump(op, target) ==
            LET t == emitLoad(g, s, o.ops[1])
            IN changeStack(jump(t, op, target), 1, Null)
    IN
    CASE o.kind = "alloca" -> changeStack(emitInstr(g, I1("ALLOCA", 1)), 0, i)
      [] o.kind = "call" ->
            LET t0 == [loads(g, 2) EXCEPT !.funcs = ensureValue(@, o.ops[1])]
                ret == s.obj[o.ops[1]].data # 0
                t1 == emitInstr(t0, I3("CALL", id(t0.funcs), argc,
                                       IF ret THEN 1 ELSE 0))
                t2 == changeStack(t1, argc, IF ret THEN i ELSE Null)
            IN IF ret /\ o.uses = <<>> /\ ~t2.abort
               THEN changeStack(emitInstr(t2, I1("DISCARD", 1)), 1, Null)
               ELSE t2
      [] o.kind = "hcall" ->
            LET t0 == [loads(g, 2) EXCEPT !.hands = ensureValue(@, o.ops[1])]
            IN changeStack(emitInstr(t0, I3("HANDLER", id(t0.hands), argc, 0)),
                           argc, Null)
      [] o.kind \in {"ncmpeq", "band", "bor"} ->
            LET n == Len(g.stk)
                t == IF /\ n >= 2
                        /\ o.ops[1] = g.stk[n - 1] /\ o.ops[2] = g.stk[n]
                        /\ Len(s.obj[o.ops[1]].uses) = 1
                        /\ Len(s.obj[o.ops[2]].uses) = 1
                     THEN g
                     ELSE emitLoad(emitLoad(g, s, o.ops[1]), s, o.ops[2])
            IN IF t.abort THEN t
               ELSE changeStack(
                        [emitInstr(t, I0(binaryOpcode(o.kind)))
                             EXCEPT !.ors = IF o.kind = "bor"
                                            THEN @ \cup {Len(t.code)} ELSE @],
                        2, i)
      [] o.kind = "condbr" ->
            IF isAfter(s, bb, o.ops[2]) THEN condJump("JZ", o.ops[3])
            ELSE IF isAfter(s, bb, o.ops[3]) THEN condJump("JN", o.ops[2])
            ELSE jump(condJump("JN", o.ops[2]), "JMP", o.ops[3])
      [] o.kind = "br" ->
            IF isAfter(s, bb, o.ops[1]) THEN g ELSE jump(g, "JMP", o.ops[1])
      [] o.kind = "ret" -> emitInstr(g, I1("EXIT", s.obj[o.ops[1]].data))
      [] OTHER -> [g EXCEPT !.abort = TRUE]

(* TargetCodeGenerator::generate, for one IRHandler; each visit's result   *)
(* is bound (CHOOSE over a singleton) before the walk goes on with it.     *)
generate(s) ==
    LET RECURSIVE walk(_, _, _, _)
        walk(g, entry, k, j) ==
            IF k > Len(s.blocks) \/ g.abort THEN [g |-> g, entry |-> entry]
            ELSE LET bb == s.blocks[k]
                     e1 == IF j = 1 THEN entry @@ (bb :> Len(g.code)) ELSE entry
                 IN IF j > Len(s.obj[bb].code) THEN walk(g, e1, k + 1, 1)
                    ELSE CHOOSE w \in {walk(t, e, k, j + 1) :
                                           t \in {visit(g, s, bb, s.obj[bb].code[j])},
                                           e \in {e1}} : TRUE
        fixed(r) == [p \in 1..Len(r.g.code) |->
                        IF \E x \in r.g.jumps : x.pc = p - 1
                        THEN LET x == CHOOSE y \in r.g.jumps : y.pc = p - 1
                             IN [r.g.code[p] EXCEPT !.A = r.entry[x.to]]
                        ELSE r.g.code[p]]
        linked(r) == IF r.g.abort THEN r.g
                     ELSE [r.g EXCEPT !.code = fixed(r), !.entry = r.entry]
    IN CHOOSE out \in {linked(r) : r \in {walk(CG0, <<>>, 1, 1)}} : TRUE

(* The handlers code is generated for: a value that stays live across an   *)
(* if; an if as the shell's IRGenerator builds it, with a handler call;    *)
(* a local allocated in one arm of an if; a while loop; the boolean OR    *)
(* and the boolean AND of two results; an integer constant passed twice.   *)
CGHandlers ==
    LET I(k, o) == [kind |-> k, ops |-> o]
    IN << << <<I("call", <<5>>), I("call", <<5>>), I("condbr", <<12, 9, 10>>)>>,
             <<I("call", <<4, 11>>), I("br", <<10>>)>>,
             <<I("ret", <<1>>)>> >>,
          << <<I("call", <<5>>), I("ncmpeq", <<11, 1>>),
               I("condbr", <<12, 9, 10>>)>>,
             <<I("call", <<4, 2>>), I("br", <<10>>)>>,
             <<I("hcall", <<6>>), I("ret", <<2>>)>> >>,
          << <<I("call", <<5>>), I("condbr", <<11, 9, 10>>)>>,
             <<I("alloca", <<2>>), I("br", <<10>>)>>,
             <<I("ret", <<1>>)>> >>,
          << <<I("br", <<9>>)>>,
             <<I("call", <<5>>), I("condbr", <<12, 10, 11>>)>>,
             <<I("call", <<5>>), I("call", <<4, 14>>), I("br", <<9>>)>>,
             <<I("ret", <<1>>)>> >>,
          << <<I("call", <<5>>), I("call", <<5>>), I("bor", <<9, 10>>),
               I("call", <<4, 11>>), I("ret", <<1>>)>> >>,
          << <<I("call", <<5>>), I("call", <<5>>), I("band", <<9, 10>>),
               I("call", <<4, 11>>), I("ret", <<1>>)>> >>,
          << <<I("call", <<4, 2>>), I("call", <<4, 2>>), I("ret", <<1>>)>> >> >>

(* The values the IRProgram's second integer constant takes: small, the   *)
(* largest operand, the first value past it, and negative ones.            *)
LoadConstants == {1, OperandMax, OperandMax + 1, -1, -(OperandMax + 1)}

(* TargetCodeGenerator::generate and the Handler the Runner is given *)
Generate ==
    /\ phase = "gen"
    /\ \E g \in {generate(ir)} :
       /\ cg' = [depth |-> g.depth, abort |-> g.abort, ors |-> g.ors,
                 loads |-> g.loads]
       /\ numbers' = g.nums
       /\ code' = setCode(g.code)
       /\ natFuncs' = [k \in 1..Len(g.funcs) |->
                          [void |-> ir.obj[g.funcs[k]].data = 0]]
       /\ natHandlers' = [k \in 1..Len(g.hands) |-> [void |-> TRUE]]
       /\ phase' = IF g.abort THEN "aborted" ELSE "idle"
    /\ UNCHANGED <<dispatch, quota, state, ip, pc, stack, globals, hist, ir,
                   lk, pm>>

InitGen ==
    /\ \E k \in 1..Len(CGHandlers), number \in LoadConstants :
           ir = [build(CGHandlers[k]) EXCEPT !.obj[2].data = number]
    /\ cg = [depth |-> <<>>, abort |-> FALSE, ors |-> {}, loads |-> {}]
    /\ code = <<>> /\ natFuncs = <<>> /\ natHandlers = <<>>
    /\ numbers = <<>>
    /\ dispatch \in Dispatches
    /\ quota = NoQuota
    /\ state = "Inactive" /\ ip = 0 /\ pc = 0
    /\ stack = <<>> /\ globals = <<>>
    /\ phase = "gen" /\ hist = Hist0
    /\ lk = Unused /\ pm = Unused

NextGen ==
    \/ Generate
    \/ Run
    \/ Resume
    \/ ExecPlain
    \/ ExecExit
    \/ ExecCall
    \/ ExecHandler

SpecGen == InitGen /\ [][NextGen]_vars

(* C1: whenever the Runner is about to execute an instruction the          *)
(* generator emitted, its stack holds as many values as the generator's    *)
(* simulated stack held when the instruction was emitted, on every path    *)
(* that reaches the instruction.                                           *)
C1_SimulatedDepthIsRuntimeDepth ==
    (phase = "loop" /\ hist.rets = <<>> /\ pc < Len(cg.depth)) =>
        Len(stack) = cg.depth[pc + 1]

(* ---------------------------------------------------------------------- *)
(* Program::link against a Runtime.  lk holds the constant pool's modules  *)
(* and its two tables of unresolved signatures, the Runtime's registered   *)
(* callbacks (a callback is its place in _builtins) and the modules its    *)
(* import() accepts, the Program's resolved tables and what link()         *)
(* returned.                                                               *)
Signatures == {"f", "g", "h"}

(* Runtime::import: virtual; the base class accepts nothing. *)
(* An import that accepts every module. *)
import_m(rt, module) == TRUE

import(rt, module) == module \in rt.accepts

(* Runtime::find *)
find(rt, signature) ==
    IF Has(rt.builtins, signature)
    THEN CHOOSE k \in 1..Len(rt.builtins) :
             /\ rt.builtins[k] = signature
             /\ \A j \in 1..(k - 1) : rt.builtins[j] # signature
    ELSE Null

(* Program::link: errors++ for every slot left nullptr *)
(* A link that counts no unresolved slot. *)
unresolved_m(table) == 0

unresolved(table) == Occ(table, Null)

(* Program::link *)
link(p) ==
    LET refused == Cardinality({k \in 1..Len(p.modules) :
                                   ~import(p, p.modules[k])})
        nh == [k \in 1..Len(p.hsigs) |-> find(p, p.hsigs[k])]
        nf == [k \in 1..Len(p.fsigs) |-> find(p, p.fsigs[k])]
        errors == refused + unresolved(nh) + unresolved(nf)
    IN [p EXCEPT !.nativeHandlers = nh, !.nativeFunctions = nf,
                 !.ret = IF errors = 0 THEN "true" ELSE "false"]

(* The code the generator leaves for signature tables hs and fs: ids are   *)
(* what ConstantPool::makeNativeHandler / makeNativeFunction returned.     *)
LinkCode(hs, fs) ==
    [k \in 1..Len(fs) |-> I3("CALL", k - 1, 0, 0)]
        \o [k \in 1..Len(hs) |-> I3("HANDLER", k - 1, 0, 0)]

(* Runtime::registerHandler / registerFunction *)
LkRegister ==
    /\ lk.ret = "none"
    /\ Len(lk.builtins) < MaxBuiltins
    /\ \E sig \in Signatures :
          /\ ~Has(lk.builtins, sig)
          /\ lk' = [lk EXCEPT !.builtins = Append(@, sig)]
    /\ UNCHANGED <<vmVars, ir, cg, pm>>

LkLink ==
    /\ lk.ret = "none"
    /\ lk' = link(lk)
    /\ UNCHANGED <<vmVars, ir, cg, pm>>

InitLink ==
    /\ \E ms \in {<<>>, <<"a">>, <<"a", "b">>}, acc \in SUBSET {"a", "b"},
          hs \in {<<>>, <<"h">>},
          fs \in {<<>>, <<"f">>, <<"g">>, <<"f", "g">>, <<"g", "f">>} :
          /\ lk = [modules |-> ms, accepts |-> acc, hsigs |-> hs, fsigs |-> fs,
                   builtins |-> <<>>, nativeHandlers |-> <<>>,
                   nativeFunctions |-> <<>>, ret |-> "none"]
          /\ code = setCode(LinkCode(hs, fs))
    /\ natFuncs = <<>> /\ natHandlers = <<>>
    /\ numbers = <<>>
    /\ dispatch = "switch" /\ quota = NoQuota /\ state = "Inactive"
    /\ ip = 0 /\ pc = 0 /\ stack = <<>> /\ globals = <<>>
    /\ phase = "off" /\ hist = Hist0
    /\ ir = Unused /\ cg = Unused /\ pm = Unused

NextLink ==
    \/ LkRegister
    \/ LkLink

SpecLink == InitLink /\ [][NextLink]_vars

(* Every CALL id and every HANDLER id of the code indexes a non-null       *)
(* entry of the resolved tables.                                           *)
IdsResolved ==
    \A k \in 1..Len(code) :
        /\ code[k].op = "CALL" =>
              /\ code[k].A < Len(lk.nativeFunctions)
              /\ lk.nativeFunctions[code[k].A + 1] # Null
        /\ code[k].op = "HANDLER" =>
              /\ code[k].A < Len(lk.nativeHandlers)
              /\ lk.nativeHandlers[code[k].A + 1] # Null

(* C8, as stated: after Program::link() has run, every id embedded in a    *)
(* CALL opcode indexes a non-null entry of the resolved native-function    *)
(* table and every id embedded in a HANDLER opcode a non-null entry of     *)
(* the resolved native-handler table.                                      *)
C8_AfterLinkIdsResolved == lk.ret # "none" => IdsResolved

(* C8, amended: the ids index non-null entries after Program::link() has   *)
(* returned true.                                                          *)
C8_AfterLinkTrueIdsResolved == lk.ret = "true" => IdsResolved

C8_Witness ==
    /\ lk.ret = "true"
    /\ \E k \in 1..Len(code) : code[k].op = "CALL"
    /\ \E k \in 1..Len(code) : code[k].op = "HANDLER"

(* C9: Program::link() returns true iff every declared import was          *)
(* accepted by the Runtime and every unresolved native-handler and         *)
(* native-function signature was resolved to a registered NativeCallback.  *)
C9_LinkTrueIffNoErrors ==
    lk.ret # "none" =>
        (lk.ret = "true" <=>
            /\ \A k \in 1..Len(lk.modules) : lk.modules[k] \in lk.accepts
            /\ \A k \in 1..Len(lk.hsigs) : Has(lk.builtins, lk.hsigs[k])
            /\ \A k \in 1..Len(lk.fsigs) : Has(lk.builtins, lk.fsigs[k]))

C9_Witness ==
    /\ lk.ret = "true"
    /\ lk.modules # <<>> /\ lk.hsigs # <<>> /\ Len(lk.fsigs) = 2

(* ---------------------------------------------------------------------- *)
(* PassManager.  pm holds the number of registered passes (pass k is the   *)
(* k-th registered), the pass the running sweep invokes next (0 outside    *)
(* run()), the sweep's change count, and the calls made so far: k for the  *)
(* invocation of pass k, 0 for handler->verify().                          *)
(* A run() that starts over at the first pass after every change. *)
sweep_m(p, changed) ==
    IF changed THEN [p EXCEPT !.pos = 1, !.changes = 0]
    ELSE IF p.pos < p.n THEN [p EXCEPT !.pos = @ + 1]
    ELSE [p EXCEPT !.pos = IF p.changes = 0 THEN 0 ELSE 1, !.changes = 0,
                   !.done = p.changes = 0]

(* A run() that does not count the changes of a sweep. *)
sweep_uncounted(p, changed) ==
    IF p.pos < p.n THEN [p EXCEPT !.pos = @ + 1]
    ELSE [p EXCEPT !.pos = 0, !.changes = 0, !.done = TRUE]

(* PassManager::run for a handler: what follows the return of the pass    *)
(* at pos within the two loops.                                            *)
sweep(p, changed) ==
    LET c == IF changed THEN p.changes + 1 ELSE p.changes
    IN IF p.pos < p.n THEN [p EXCEPT !.pos = @ + 1, !.changes = c]
       ELSE [p EXCEPT !.pos = IF c = 0 THEN 0 ELSE 1, !.changes = 0,
                      !.done = c = 0]

(* PassManager::registerPass *)
PMRegister ==
    /\ pm.pos = 0 /\ ~pm.done /\ pm.n < MaxPasses
    /\ pm' = [pm EXCEPT !.n = @ + 1]
    /\ UNCHANGED <<vmVars, ir, cg, lk>>

(* PassManager::run for a handler is entered. *)
PMRun ==
    /\ pm.pos = 0 /\ ~pm.done
    /\ pm' = IF pm.n = 0 THEN [pm EXCEPT !.done = TRUE]
             ELSE [pm EXCEPT !.pos = 1, !.changes = 0]
    /\ UNCHANGED <<vmVars, ir, cg, lk>>

(* The pass at pos is invoked and returns; a pass changes the handler at   *)
(* most MaxChanges times over the run.                                     *)
PMPass ==
    /\ pm.pos > 0
    /\ \E changed \in BOOLEAN :
          /\ changed => pm.left > 0
          /\ pm' = [sweep(pm, changed)
                        EXCEPT !.log = pm.log \o <<pm.pos>>
                                          \o IF changed THEN <<0>> ELSE <<>>,
                               !.was = Append(pm.was, changed)
                                          \o IF changed THEN <<FALSE>> ELSE <<>>,
                               !.left = IF changed THEN @ - 1 ELSE @]
    /\ UNCHANGED <<vmVars, ir, cg, lk>>

InitPM ==
    /\ pm = [n |-> 0, pos |-> 0, changes |-> 0, done |-> FALSE,
             log |-> <<>>, was |-> <<>>, left |-> MaxChanges]
    /\ code = <<>> /\ natFuncs = <<>> /\ natHandlers = <<>>
    /\ numbers = <<>>
    /\ dispatch = "switch" /\ quota = NoQuota /\ state = "Inactive"
    /\ ip = 0 /\ pc = 0 /\ stack = <<>> /\ globals = <<>>
    /\ phase = "off" /\ hist = Hist0
    /\ ir = Unused /\ cg = Unused /\ lk = Unused

NextPM ==
    \/ PMRegister
    \/ PMRun
    \/ PMPass

SpecPM == InitPM /\ [][NextPM]_vars

(* The pass invoked after the call at place i of the log, 0 if none yet. *)
NextPass(i) ==
    LET later == {j \in (i + 1)..Len(pm.log) : pm.log[j] # 0}
    IN IF later = {} THEN 0
       ELSE LET j == CHOOSE x \in later : \A y \in later : x <= y
            IN pm.log[j]

(* Whether a pass reported a change in the sweep that the call at place i  *)
(* of the log belongs to, up to that call.                                 *)
SweepChanged(i) ==
    LET s == CHOOSE x \in 1..i : pm.log[x] = 1 /\ \A y \in (x + 1)..i : pm.log[y] # 1
    IN \E j \in s..i : pm.was[j]

(* C10, as stated: run() invokes the passes in registration order, and     *)
(* whenever a pass reports a change it invokes verify() and restarts the   *)
(* sweep from the first registered pass before any later pass is run.      *)
C10_RestartAfterChange ==
    \A i \in 1..Len(pm.log) :
        pm.log[i] # 0 =>
            IF pm.was[i]
            THEN /\ i < Len(pm.log) /\ pm.log[i + 1] = 0
                 /\ NextPass(i) \in {0, 1}
            ELSE NextPass(i) \in {0, 1, pm.log[i] + 1}

(* C10, amended: run() invokes the passes in registration order, sweep     *)
(* after sweep; a pass that reports a change is followed by verify() and   *)
(* then by the next registered pass; a new sweep starts at the first pass  *)
(* once a sweep in which some pass reported a change has ended, and run()  *)
(* returns after a sweep without a change.                                 *)
C10_SweepsInOrder ==
    /\ pm.log # <<>> => pm.log[1] = 1
    /\ \A i \in 1..Len(pm.log) :
          IF pm.log[i] = 0
          THEN i > 1 /\ pm.log[i - 1] # 0 /\ pm.was[i - 1]
          ELSE /\ pm.was[i] <=> (i < Len(pm.log) /\ pm.log[i + 1] = 0)
               /\ pm.log[i] < pm.n =>
                     /\ NextPass(i) \in {0, pm.log[i] + 1}
                     /\ NextPass(i) = 0 => pm.pos = pm.log[i] + 1
               /\ pm.log[i] = pm.n =>
                     IF SweepChanged(i)
                     THEN /\ NextPass(i) \in {0, 1}
                          /\ NextPass(i) = 0 => pm.pos = 1
                     ELSE NextPass(i) = 0 /\ pm.done

C10_Witness ==
    /\ pm.done /\ pm.n = 3
    /\ pm.log = <<1, 0, 2, 3, 1, 2, 3>>

(* C20, as stated: when the native handler invoked by a HANDLER opcode     *)
(* reports that it handled the event, the runner is Inactive and the       *)
(* enclosing run()/resume() returns true.                                  *)
C20_HandledReturnsTrue ==
    hist.handled = "true" =>
        /\ phase = "idle" /\ state = "Inactive"
        /\ Last(hist.rets).ret = TRUE

(* C20, amended: a native handler that reports that it handled the event   *)
(* and has not suspended the runner leaves the runner Inactive and makes   *)
(* run()/resume() return true; if it has suspended the runner, the runner  *)
(* is Suspended and run()/resume() returns false.                          *)
C20_HandledUnlessSuspended ==
    hist.handled = "true" =>
        /\ phase = "idle"
        /\ IF hist.callPc = -1
           THEN state = "Inactive" /\ Last(hist.rets).ret = TRUE
           ELSE state = "Suspended" /\ Last(hist.rets).ret = FALSE

C20_Witness ==
    /\ hist.handled = "true" /\ hist.callPc = -1
    /\ state = "Inactive" /\ Last(hist.rets).ret = TRUE
    /\ hist.executed > 1

(* C18: for every boolean-OR IR instruction the generator emits the BOR    *)
(* opcode, whose result is the logical OR of its operands; BAND is never   *)
(* emitted for a boolean OR.                                               *)
C18_BOrEmitsBOR ==
    /\ [](\A p \in cg.ors : code[p + 1].op = "BOR")
    /\ [][(phase = "loop" /\ pc \in cg.ors /\ Len(stack) >= 2
              /\ phase' = "loop") =>
             Last(stack') = B2N(stack[Len(stack) - 1] # 0 \/ Last(stack) # 0)]_vars

(* C19: an integer constant is loaded by ILOAD with the value as the       *)
(* immediate iff the value fits in the operand, and otherwise by NLOAD     *)
(* with the pool index of the value; executing the load pushes the         *)
(* constant, whatever 64-bit signed value it is.                           *)
C19_LoadPushesConstant ==
    /\ [](\A l \in cg.loads :
             IF 0 <= l.number /\ l.number <= OperandMax
             THEN code[l.pc + 1] = I1("ILOAD", l.number)
             ELSE /\ code[l.pc + 1].op = "NLOAD"
                  /\ code[l.pc + 1].A < Len(numbers)
                  /\ numbers[code[l.pc + 1].A + 1] = l.number)
    /\ [][\A l \in cg.loads :
             (phase = "loop" /\ pc = l.pc /\ phase' = "loop")
                 => Last(stack') = l.number]_vars

----------------------------------------------------------------------------
(* The optimiser: the transform passes called on a handler one by one, and *)
(* PassManager::run with the passes the shell registers.                   *)

(* Shell.cpp: the passes registered with the PassManager, in order. *)
Registered ==
    << "emptyBlockElimination", "eliminateLinearBr", "eliminateUnusedBlocks",
       "eliminateUnusedInstr", "foldConstantCondBr", "rewriteBrToExit",
       "rewriteCondBrToSameBranches" >>

(* The handlers the optimiser is tried on: those of IRHandlers that are    *)
(* complete, an entry block that only branches on to a block with calls   *)
(* whose results are not used, and a diamond whose join is followed by a   *)
(* block of its own.                                                       *)
OptHandlers ==
    LET I(k, o) == [kind |-> k, ops |-> o]
    IN SubSeq(IRHandlers, 1, 5) \o
       << << <<I("br", <<9>>)>>,
             <<I("call", <<5>>), I("call", <<5, 11>>), I("call", <<4>>),
               I("ret", <<1>>)>> >>,
          << <<I("call", <<5>>), I("condbr", <<12, 9, 10>>)>>,
             <<I("call", <<4>>), I("br", <<10>>)>>,
             <<I("call", <<5>>), I("br", <<11>>)>>,
             <<I("call", <<4, 16>>), I("ret", <<1>>)>> >> >>

(* One call of a pass: directly by a caller of the transform (mode "any"), *)
(* by PassManager::run (mode "run"), or in one more sweep over the         *)
(* registered passes after run() has returned (mode "again").  pm keeps    *)
(* the handler as it was before the call and what the call returned.       *)
OptPass(name, r) ==
    /\ LET seen == [pm EXCEPT !.pass = name, !.ret = r.changed,
                                 !.before = ir]
          IN IF r.s.abort # "none"
             THEN /\ ir' = [ir EXCEPT !.abort = r.s.abort]
                  /\ pm' = seen
             ELSE IF pm.mode = "run" /\ r.changed /\ ~verify(r.s)
             THEN /\ ir' = [ir EXCEPT !.abort = "assert"]
                  /\ pm' = seen
             ELSE /\ ir' = r.s
                  /\ pm' =
                       CASE pm.mode = "any" -> seen
                         [] pm.mode = "run" ->
                              LET p == sweep(seen, r.changed)
                              IN IF p.done
                                 THEN [p EXCEPT !.mode = "again", !.pos = 1]
                                 ELSE [p EXCEPT !.sweeps =
                                           IF seen.pos = seen.n
                                           THEN Min(@ + 1, MaxCount) ELSE @]
                         [] pm.mode = "again" ->
                              [seen EXCEPT
                                   !.moved = @ \/ r.changed \/ r.s # ir,
                                   !.pos = IF @ < seen.n THEN @ + 1 ELSE 0,
                                   !.mode = IF seen.pos < seen.n
                                            THEN "again" ELSE "end"]
    /\ UNCHANGED <<vmVars, cg, lk>>

(* A pass is called on a handler that passes verify(); run() calls the     *)
(* pass at its position.                                                   *)
OptCall(name) ==
    /\ ir.abort = "none"
    /\ pm.mode \in {"any", "run", "again"}
    /\ IF pm.mode = "any" THEN verify(ir) ELSE Registered[pm.pos] = name

OptEmptyBlockElimination ==
    /\ OptCall("emptyBlockElimination")
    /\ \E trap \in BOOLEAN : \E r \in {emptyBlockElimination(ir, trap)} :
          OptPass("emptyBlockElimination", r)

OptEliminateLinearBr ==
    /\ OptCall("eliminateLinearBr")
    /\ \E r \in {eliminateLinearBr(ir)} : OptPass("eliminateLinearBr", r)

OptEliminateUnusedBlocks ==
    /\ OptCall("eliminateUnusedBlocks")
    /\ \E r \in {eliminateUnusedBlocks(ir)} :
          OptPass("eliminateUnusedBlocks", r)

OptEliminateUnusedInstr ==
    /\ OptCall("eliminateUnusedInstr")
    /\ \E r \in {eliminateUnusedInstr(ir)} : OptPass("eliminateUnusedInstr", r)

OptFoldConstantCondBr ==
    /\ OptCall("foldConstantCondBr")
    /\ \E r \in {foldConstantCondBr(ir)} : OptPass("foldConstantCondBr", r)

OptRewriteBrToExit ==
    /\ OptCall("rewriteBrToExit")
    /\ \E r \in {rewriteBrToExit(ir)} : OptPass("rewriteBrToExit", r)

OptRewriteCondBrToSameBranches ==
    /\ OptCall("rewriteCondBrToSameBranches")
    /\ \E r \in {rewriteCondBrToSameBranches(ir)} :
          OptPass("rewriteCondBrToSameBranches", r)

(* mergeSameBlocks is registered with no PassManager. *)
OptMergeSameBlocks ==
    /\ pm.mode = "any"
    /\ OptCall("mergeSameBlocks")
    /\ \E trap \in BOOLEAN : \E r \in {mergeSameBlocks(ir, trap)} :
          OptPass("mergeSameBlocks", r)

(* The handler as the IRBuilder left it; the boolean constant is true or   *)
(* false, and the builtin f has no result, has one, or is side-effect      *)
(* free without a result.                                                  *)
InitOpt ==
    /\ \E k \in 1..Len(OptHandlers), b \in {0, 1}, f \in {0, 2, 3} :
           ir = [build(OptHandlers[k]) EXCEPT !.obj[3].data = b,
                                             !.obj[4].data = f]
    /\ \E mode \in {"any", "run"} :
           pm = [n |-> Len(Registered), pos |-> IF mode = "run" THEN 1 ELSE 0,
                 changes |-> 0, done |-> FALSE, mode |-> mode, sweeps |-> 1,
                 moved |-> FALSE, pass |-> "none", ret |-> FALSE,
                 before |-> ir]
    /\ code = <<>> /\ natFuncs = <<>> /\ natHandlers = <<>>
    /\ numbers = <<>>
    /\ dispatch = "switch" /\ quota = NoQuota /\ state = "Inactive"
    /\ ip = 0 /\ pc = 0 /\ stack = <<>> /\ globals = <<>>
    /\ phase = "off" /\ hist = Hist0
    /\ cg = Unused /\ lk = Unused

NextOpt ==
    \/ OptEmptyBlockElimination
    \/ OptEliminateLinearBr
    \/ OptEliminateUnusedBlocks
    \/ OptEliminateUnusedInstr
    \/ OptFoldConstantCondBr
    \/ OptRewriteBrToExit
    \/ OptRewriteCondBrToSameBranches
    \/ OptMergeSameBlocks

SpecOpt == InitOpt /\ [][NextOpt]_vars

(* C12: a transform pass returns true iff it changed the handler: after a  *)
(* call that returned false the handler's blocks, instructions, operands   *)
(* and edges are what they were before the call, and after a call that     *)
(* returned true at least one of them differs.                             *)
C12_ReturnsTrueIffChanged ==
    (pm.pass # "none" /\ ir.abort = "none") =>
        (pm.ret <=> (ir.obj # pm.before.obj \/ ir.blocks # pm.before.blocks))

(* C11: after PassManager::run(handler) has returned, one more sweep over  *)
(* the registered passes changes nothing: every pass of it returns false   *)
(* and leaves the handler's blocks, instructions and edges as they were.   *)
C11_SecondSweepChangesNothing ==
    pm.mode \in {"again", "end"} => ir.abort = "none" /\ ~pm.moved

(* run() needed more than one sweep, and the sweep after it is over. *)
C11_Witness ==
    pm.mode = "end" /\ pm.sweeps >= 2 /\ ~pm.moved /\ ir.abort = "none"

(* C13: emptyBlockElimination removes every block other than the entry     *)
(* block whose only instruction is an unconditional branch, and in the     *)
(* terminator of every predecessor of a removed block, however many the    *)
(* block has, each operand that was the block is the target its branch     *)
(* leads to.                                                               *)
C13_EmptyBlocksRemoved ==
    LET b == pm.before
        gone == {x \in Ids : /\ Has(b.blocks, x) /\ x # Head(b.blocks)
                             /\ Len(b.obj[x].code) = 1
                             /\ b.obj[b.obj[x].code[1]].kind = "br"}
        RECURSIVE target(_, _)
        target(x, fuel) ==
            IF x \in gone /\ fuel > 0
            THEN target(b.obj[b.obj[x].code[1]].ops[1], fuel - 1) ELSE x
    IN pm.pass = "emptyBlockElimination" =>
          /\ ir.abort = "none"
          /\ \A x \in gone :
                /\ ~Has(ir.blocks, x)
                /\ \A k \in 1..Len(b.obj[x].preds) :
                      LET pred == b.obj[x].preds[k]
                          term == Last(b.obj[pred].code)
                      IN pred \notin gone =>
                            \A j \in 1..Len(b.obj[term].ops) :
                                b.obj[term].ops[j] = x =>
                                    ir.obj[term].ops[j] = target(x, MaxObj)

(* C14: when the entry block holds nothing but an unconditional branch,    *)
(* emptyBlockElimination keeps it: after the pass it is still a block of   *)
(* the handler and still the entry block.                                  *)
C14_EntryBlockKept ==
    LET b == pm.before
        entry == Head(b.blocks)
    IN (/\ pm.pass = "emptyBlockElimination"
        /\ Len(b.obj[entry].code) = 1
        /\ b.obj[b.obj[entry].code[1]].kind = "br")
       => /\ ir.abort = "none"
          /\ Has(ir.blocks, entry)
          /\ Head(ir.blocks) = entry

(* C15: when the handler has a block B that ends with an unconditional     *)
(* branch to a block T whose only predecessor is B, eliminateLinearBr      *)
(* merges such a pair: B then holds its former instructions but the        *)
(* branch, followed by T's; B's successors are T's former successors,      *)
(* each holding B as a predecessor and T no more; T has left the handler.  *)
C15_LinearBrMerged ==
    LET b == pm.before
        linear(B, T) ==
            /\ Has(b.blocks, B)
            /\ b.obj[B].code # <<>>
            /\ b.obj[Last(b.obj[B].code)].kind = "br"
            /\ b.obj[Last(b.obj[B].code)].ops = <<T>>
            /\ b.obj[T].preds = <<B>>
        merged(B, T) ==
            /\ ir.obj[B].code = DropLast(b.obj[B].code, 1) \o b.obj[T].code
            /\ ir.obj[B].succs = b.obj[T].succs
            /\ \A k \in 1..Len(b.obj[T].succs) :
                  /\ Has(ir.obj[b.obj[T].succs[k]].preds, B)
                  /\ ~Has(ir.obj[b.obj[T].succs[k]].preds, T)
            /\ ~Has(ir.blocks, T)
    IN (/\ pm.pass = "eliminateLinearBr"
        /\ \E B \in Ids, T \in Ids : linear(B, T))
       => /\ ir.abort = "none"
          /\ \E B \in Ids, T \in Ids : linear(B, T) /\ merged(B, T)

(* C16: when the handler has a conditional branch whose condition is a     *)
(* constant boolean, foldConstantCondBr replaces such a branch by an       *)
(* unconditional branch to the true block if the constant is true and to   *)
(* the false block if it is false; the edge to the other side is gone.     *)
C16_ConstantCondBrFolded ==
    LET b == pm.before
        constant(B) ==
            /\ Has(b.blocks, B)
            /\ b.obj[B].code # <<>>
            /\ b.obj[Last(b.obj[B].code)].kind = "condbr"
            /\ b.obj[b.obj[Last(b.obj[B].code)].ops[1]].kind = "bool"
        folded(B) ==
            LET condbr == b.obj[Last(b.obj[B].code)]
                side == IF b.obj[condbr.ops[1]].data = 1
                        THEN condbr.ops[2] ELSE condbr.ops[3]
                other == IF b.obj[condbr.ops[1]].data = 1
                         THEN condbr.ops[3] ELSE condbr.ops[2]
            IN /\ DropLast(ir.obj[B].code, 1) = DropLast(b.obj[B].code, 1)
               /\ ir.obj[Last(ir.obj[B].code)].kind = "br"
               /\ ir.obj[Last(ir.obj[B].code)].ops = <<side>>
               /\ ir.obj[B].succs = <<side>>
               /\ Occ(ir.obj[side].preds, B) = 1
               /\ other # side => ~Has(ir.obj[other].preds, B)
    IN (pm.pass = "foldConstantCondBr" /\ \E B \in Ids : constant(B))
       => /\ ir.abort = "none"
          /\ pm.ret
          /\ \E B \in Ids : constant(B) /\ folded(B)

(* A conditional branch on the constant false has been folded. *)
C16_Witness ==
    /\ pm.pass = "foldConstantCondBr" /\ pm.ret /\ ir.abort = "none"
    /\ pm.before.obj[3].data = 0
    /\ \E B \in Ids :
          /\ Has(pm.before.blocks, B)
          /\ pm.before.obj[Last(pm.before.obj[B].code)].kind = "condbr"
          /\ pm.before.obj[Last(pm.before.obj[B].code)].ops[1] = 3
          /\ ir.obj[B].succs = <<pm.before.obj[Last(pm.before.obj[B].code)].ops[3]>>

(* C17: eliminateUnusedInstr removes exactly calls of builtin functions    *)
(* whose callback is side-effect free, whose result is not void and is     *)
(* used nowhere: a call that finds one removes one and nothing else, a     *)
(* call that returns false has found none left, and every other            *)
(* instruction stays as it was.                                            *)
C17_RemovesExactlyDeadCalls ==
    LET b == pm.before
        placed(s) == {i \in Ids : /\ s.obj[i].parent # Null
                                  /\ Has(s.blocks, s.obj[i].parent)}
        unusedPure(s) == {i \in placed(s) :
                             /\ s.obj[i].kind = "call"
                             /\ s.obj[s.obj[i].ops[1]].data = 1
                             /\ s.obj[i].uses = <<>>}
        removed == placed(b) \ placed(ir)
    IN pm.pass = "eliminateUnusedInstr" =>
          /\ ir.abort = "none"
          /\ removed \subseteq unusedPure(b)
          /\ pm.ret <=> unusedPure(b) # {}
          /\ pm.ret <=> removed # {}
          /\ ~pm.ret => unusedPure(ir) = {}
          /\ ir.blocks = b.blocks
          /\ \A x \in Ids :
                Has(b.blocks, x) =>
                    ir.obj[x].code =
                        SelectSeq(b.obj[x].code, LAMBDA i : i \notin removed)
          /\ \A i \in placed(ir) :
                /\ ir.obj[i].kind = b.obj[i].kind
                /\ ir.obj[i].ops = b.obj[i].ops

(* An unused call of the side-effect free g has been removed while an      *)
(* unused call of f, which has a result but is not side-effect free,       *)
(* stays.                                                                  *)
C17_Witness ==
    /\ pm.pass = "eliminateUnusedInstr" /\ pm.ret /\ ir.abort = "none"
    /\ ir.obj[4].data = 2
    /\ \E i \in Ids : /\ pm.before.obj[i].kind = "call"
                       /\ pm.before.obj[i].ops[1] = 5
                       /\ pm.before.obj[i].parent # Null
                       /\ ir.obj[i].parent = Null
    /\ \E i \in Ids : /\ ir.obj[i].kind = "call" /\ ir.obj[i].ops = <<4>>
                       /\ ir.obj[i].uses = <<>>
                       /\ ir.obj[i].parent # Null
                       /\ Has(ir.blocks, ir.obj[i].parent)

(* The operations on operands alone, replaceAllUsesWith among them. *)
NextUses ==
    \/ IRCreate
    \/ IRPushBack
    \/ IRSetOperand
    \/ IRReplaceOperand
    \/ IRReplaceAllUsesWith

SpecUses == InitIR /\ [][NextUses]_vars

(* C25: after V.replaceAllUsesWith(W) with W different from V, V has no   *)
(* use left and every operand slot that referred to V refers to W, also    *)
(* where V stood in several slots of one instruction.                      *)
C25_AllUsesReplaced ==
    ir.last = "replaceAllUsesWith" =>
        /\ ir.obj[lk.v].uses = <<>>
        /\ \A sl \in lk.slots : ir.obj[sl[1]].ops[sl[2]] = lk.w
        /\ \A i \in Ids : Occ(ir.obj[lk.w].uses, i) = Occ(ir.obj[i].ops, lk.w)

(* V stood in two slots of one instruction and in a slot of another. *)
C25_Witness ==
    /\ ir.last = "replaceAllUsesWith"
    /\ \E a \in lk.slots, b \in lk.slots, c \in lk.slots :
           a[1] = b[1] /\ a[2] # b[2] /\ c[1] # a[1]

(* ---------------------------------------------------------------------- *)
(* Interning of literals: IRProgram and ConstantPool                        *)
(* ---------------------------------------------------------------------- *)
(* pm holds prog (the IRProgram's tables, by kind of literal), pool (the   *)
(* ConstantPool's tables) and log (the requests made so far, each with the *)
(* literal asked for and the Constant or index returned). A Constant of    *)
(* the IRProgram is written [kind, at]: the table it is owned by and its   *)
(* position there; the two boolean literals are at 0 (false) and 1 (true). *)

MaxRequests == 3

ScalarKinds == {"number", "string", "ip", "cidr", "regexp"}

PoolKinds == ScalarKinds \cup {"intArray", "nativeHandler", "nativeFunction"}

(* The literals requested, by kind. Two RegExp objects of one pattern      *)
(* differ in their compiled std::regex (re).                                *)
Literals ==
    [kind \in PoolKinds |->
        CASE kind = "number" -> {0, 7}
          [] kind = "string" -> {"", "a"}
          [] kind = "ip" -> {[family |-> 4, addr |-> 1], [family |-> 6, addr |-> 1]}
          [] kind = "cidr" ->
                {[ipaddr |-> [family |-> 4, addr |-> 1], prefix |-> 8],
                 [ipaddr |-> [family |-> 4, addr |-> 1], prefix |-> 16]}
          [] kind = "regexp" ->
                {[pattern |-> "a", re |-> 1], [pattern |-> "a", re |-> 2],
                 [pattern |-> "b", re |-> 3]}
          [] kind = "intArray" -> {<<0>>, <<7>>, <<0, 7>>}
          [] OTHER -> {"f()V", "g(I)I"}]

(* operator== of the literal types: util::IPAddress compares family and    *)
(* address bytes, util::Cidr prefix and address, util::RegExp the pattern. *)
equal(kind, a, b) ==
    CASE kind = "ip" -> a.family = b.family /\ a.addr = b.addr
      [] kind = "cidr" ->
            /\ a.prefix = b.prefix
            /\ a.ipaddr.family = b.ipaddr.family
            /\ a.ipaddr.addr = b.ipaddr.addr
      [] kind = "regexp" -> a.pattern = b.pattern
      [] OTHER -> a = b

(* The loop of both get and ensureValue: the first position (from 0) whose *)
(* entry equals the literal, or the table's size.                           *)
position(table, kind, literal) ==
    IF \E i \in 1..Len(table) : equal(kind, table[i], literal)
    THEN (CHOOSE i \in 1..Len(table) :
              /\ equal(kind, table[i], literal)
              /\ \A j \in 1..(i - 1) : ~equal(kind, table[j], literal)) - 1
    ELSE Len(table)

(* A get that makes a new Constant for every request. *)
get_m(table, kind, literal) ==
    [table |-> Append(table, literal), at |-> Len(table)]

(* IRProgram::get<T, U>(std::vector<std::unique_ptr<T>>&, U&&) *)
get(table, kind, literal) ==
    LET i == position(table, kind, literal) IN
    [table |-> IF i = Len(table) THEN Append(table, literal) ELSE table,
     at |-> i]

(* An ensureValue that answers with the last index when the value is new. *)
make_m(table, kind, value) ==
    LET i == position(table, kind, value) IN
    [table |-> IF i = Len(table) THEN Append(table, value) ELSE table,
     id |-> IF i = Len(table) /\ i > 0 THEN i - 1 ELSE i]

(* ConstantPool::make*: ensureValue(table, value) *)
make(table, kind, value) ==
    LET i == position(table, kind, value) IN
    [table |-> IF i = Len(table) THEN Append(table, value) ELSE table,
     id |-> i]

(* ConstantPool::makeHandler(const std::string&) on _handlers *)
makeHandler(handlers, name) ==
    IF \E i \in 1..Len(handlers) : handlers[i].first = name
    THEN [table |-> handlers,
          id |-> (CHOOSE i \in 1..Len(handlers) :
                      /\ handlers[i].first = name
                      /\ \A j \in 1..(i - 1) : handlers[j].first # name) - 1]
    ELSE [table |-> Append(handlers, [first |-> name, second |-> <<>>]),
          id |-> Len(handlers)]

(* IRProgram::getBoolean *)
GetBoolean ==
    /\ Len(pm.log) < MaxRequests
    /\ \E literal \in BOOLEAN :
           pm' = [pm EXCEPT !.log = Append(@, [api |-> "get", kind |-> "boolean",
                                               literal |-> literal,
                                               res |-> [kind |-> "boolean",
                                                        at |-> IF literal THEN 1
                                                               ELSE 0]])]
    /\ UNCHANGED <<vmVars, ir, cg, lk>>

(* IRProgram::get for a number, string, IP address, Cidr or RegExp *)
GetLiteral ==
    /\ Len(pm.log) < MaxRequests
    /\ \E kind \in ScalarKinds : \E literal \in Literals[kind] :
       \E r \in {get(pm.prog[kind], kind, literal)} :
           pm' = [pm EXCEPT !.prog[kind] = r.table,
                            !.log = Append(@, [api |-> "get", kind |-> kind,
                                               literal |-> literal,
                                               res |-> [kind |-> kind, at |-> r.at]])]
    /\ UNCHANGED <<vmVars, ir, cg, lk>>

(* IRProgram::get(const std::vector<Constant*>&): the elements are         *)
(* Constants the program has handed out.                                    *)
GetArray ==
    /\ Len(pm.log) < MaxRequests
    /\ LET handed == {pm.log[i].res : i \in {k \in 1..Len(pm.log) :
                          pm.log[k].api = "get" /\ pm.log[k].kind = "number"}}
       IN
       \E elems \in {<<e1>> : e1 \in handed}
                     \cup {<<e1, e2>> : e1 \in handed, e2 \in handed} :
       \E r \in {get(pm.prog["array"], "array", elems)} :
           pm' = [pm EXCEPT !.prog["array"] = r.table,
                            !.log = Append(@, [api |-> "get", kind |-> "array",
                                               literal |-> elems,
                                               res |-> [kind |-> "array",
                                                        at |-> r.at]])]
    /\ UNCHANGED <<vmVars, ir, cg, lk>>

(* ConstantPool::makeInteger .. makeRegExp, makeIntegerArray,              *)
(* makeNativeHandler, makeNativeFunction                                    *)
MakeValue ==
    /\ Len(pm.log) < MaxRequests
    /\ \E kind \in PoolKinds : \E value \in Literals[kind] :
       \E r \in {make(pm.pool[kind], kind, value)} :
           pm' = [pm EXCEPT !.pool[kind] = r.table,
                            !.log = Append(@, [api |-> "make", kind |-> kind,
                                               literal |-> value, res |-> r.id])]
    /\ UNCHANGED <<vmVars, ir, cg, lk>>

(* ConstantPool::makeHandler and ConstantPool::setHandler, which stores    *)
(* the code at the index makeHandler returns.                               *)
MakeHandler ==
    /\ Len(pm.log) < MaxRequests
    /\ \E name \in {"main", "aux"}, store \in BOOLEAN :
       \E r \in {makeHandler(pm.pool["handler"], name)} :
           pm' = [pm EXCEPT !.pool["handler"] =
                                IF store
                                THEN [r.table EXCEPT ![r.id + 1].second =
                                          <<I1("EXIT", 0)>>]
                                ELSE r.table,
                            !.log = Append(@, [api |-> "make", kind |-> "handler",
                                               literal |-> name, res |-> r.id])]
    /\ UNCHANGED <<vmVars, ir, cg, lk>>

(* IRProgram::IRProgram and the ConstantPool of a new Program *)
InitConst ==
    /\ code = <<>>
    /\ natFuncs = <<>>
    /\ natHandlers = <<>>
    /\ numbers = <<>>
    /\ dispatch = "switch"
    /\ quota = NoQuota
    /\ state = "Inactive"
    /\ ip = 0
    /\ pc = 0
    /\ stack = <<>>
    /\ globals = <<>>
    /\ phase = "idle"
    /\ hist = Hist0
    /\ ir = Unused
    /\ cg = Unused
    /\ lk = Unused
    /\ pm = [prog |-> [kind \in ScalarKinds \cup {"array"} |-> <<>>],
             pool |-> [kind \in PoolKinds \cup {"handler"} |-> <<>>],
             log |-> <<>>]

NextConst ==
    \/ GetBoolean
    \/ GetLiteral
    \/ GetArray
    \/ MakeValue
    \/ MakeHandler

SpecConst == InitConst /\ [][NextConst]_vars

(* C23: requesting the same literal (boolean, integer, string, IP address, *)
(* CIDR, regular expression, constant array) from an IRProgram twice       *)
(* returns the same Constant entity.                                       *)
C23_SameLiteralSameConstant ==
    \A i \in 1..Len(pm.log), j \in 1..Len(pm.log) :
        (/\ pm.log[i].api = "get" /\ pm.log[j].api = "get"
         /\ pm.log[i].kind = pm.log[j].kind
         /\ equal(pm.log[i].kind, pm.log[i].literal, pm.log[j].literal))
        => pm.log[i].res = pm.log[j].res

(* A regular expression has been requested, then another literal of the   *)
(* kind, then the first pattern again in another RegExp object.            *)
C23_Witness ==
    /\ Len(pm.log) = 3
    /\ \A i \in 1..3 : pm.log[i].api = "get" /\ pm.log[i].kind = "regexp"
    /\ pm.log[1].literal.pattern = pm.log[3].literal.pattern
    /\ pm.log[1].literal # pm.log[3].literal
    /\ pm.log[2].literal.pattern # pm.log[1].literal.pattern

(* C24: ConstantPool::make*(v) returns an index at which the pool holds v; *)
(* a later make* of an equal value returns the same index; an index, once  *)
(* returned, never denotes a different value.                              *)
C24_IndexDenotesValue ==
    \A i \in 1..Len(pm.log) :
        pm.log[i].api = "make" =>
            LET e == pm.log[i]
                table == pm.pool[e.kind]
            IN /\ e.res < Len(table)
               /\ IF e.kind = "handler"
                  THEN table[e.res + 1].first = e.literal
                  ELSE equal(e.kind, table[e.res + 1], e.literal)
               /\ \A j \in 1..Len(pm.log) :
                      (/\ pm.log[j].api = "make"
                       /\ pm.log[j].kind = e.kind
                       /\ IF e.kind = "handler"
                          THEN pm.log[j].literal = e.literal
                          ELSE equal(e.kind, pm.log[j].literal, e.literal))
                      <=> (/\ pm.log[j].api = "make"
                           /\ pm.log[j].kind = e.kind
                           /\ pm.log[j].res = e.res)

(* A value was made, then a different one of its kind, then the first one  *)
(* again.                                                                  *)
C24_Witness ==
    /\ Len(pm.log) = 3
    /\ \A i \in 1..3 : pm.log[i].api = "make" /\ pm.log[i].kind = pm.log[1].kind
    /\ pm.log[1].literal = pm.log[3].literal
    /\ pm.log[2].literal # pm.log[1].literal
    /\ pm.log[2].res = 1


(* ---------------------------------------------------------------------- *)
(* Match tables: MatchHead over the PrefixTree, MatchRegEx                  *)
(* ---------------------------------------------------------------------- *)
(* pm holds one match definition of the program and the part of a runner   *)
(* the match opcodes touch: cls, cases (label and pc, in declaration       *)
(* order), elsePC; userdata (what the host passed to Runner::Runner), the  *)
(* runner's own regexpContext and the host's context behind userdata (a    *)
(* std::smatch: whether a search has filled it, and the sub-matches); the     *)
(* stack, the pc after the last opcode, the string a SMATCH opcode popped, *)
(* and the last opcode executed. A string of the Head class is a sequence  *)
(* of characters.                                                          *)

MaxCases == 2

MaxString == 3

MaxSteps == 3

Chars == {"a", "b"}

Strings == UNION {[1..n -> Chars] : n \in 0..MaxString}

Labels == {s \in Strings : Len(s) < MaxString}

CasePcs == {0, 1, 2}

ElsePC == 9

(* PrefixTree::insert with PrefixTree::acquire: a node is the path to it,  *)
(* a new node holds Value().                                               *)
insert(tree, key, value) ==
    [path \in DOMAIN tree \cup {SubSeq(key, 1, k) : k \in 0..Len(key)} |->
        IF path = key THEN value
        ELSE IF path \in DOMAIN tree THEN tree[path] ELSE 0]

(* PrefixTree::lookup: down along the key while there is a child, then up  *)
(* to the first node below the root whose value is not zero.               *)
lookup(tree, key) ==
    LET down == CHOOSE k \in 0..Len(key) :
                    /\ SubSeq(key, 1, k) \in DOMAIN tree
                    /\ \A j \in (k + 1)..Len(key) :
                           SubSeq(key, 1, j) \notin DOMAIN tree
        valued == {k \in 1..down : tree[SubSeq(key, 1, k)] # 0}
    IN IF valued = {} THEN [found |-> FALSE, value |-> 0]
       ELSE [found |-> TRUE,
             value |-> tree[SubSeq(key, 1, CHOOSE k \in valued :
                                               \A j \in valued : j <= k)]]

(* MatchHead::MatchHead: the cases are inserted in declaration order. *)
MatchHead(cases) ==
    LET RECURSIVE from(_, _)
        from(tree, k) ==
            IF k > Len(cases) THEN tree
            ELSE from(insert(tree, cases[k].label, cases[k].pc), k + 1)
    IN from([path \in {<<>>} |-> 0], 1)

(* MatchHead::evaluate *)
evaluateHead(def, condition) ==
    LET r == lookup(MatchHead(def.cases), condition)
    IN IF r.found THEN r.value ELSE def.elsePC

(* std::regex_search(target, result, re) for the patterns and targets of   *)
(* the model: the sub-matches, none if the pattern is not found.            *)
RegExps == {"a(b)", "(a)", "c"}

Targets == {"ab", "a", "b"}

regex_search(pattern, target) ==
    CASE pattern = "a(b)" /\ target = "ab" -> <<"ab", "b">>
      [] pattern = "(a)" /\ target \in {"ab", "a"} -> <<"a", "a">>
      [] OTHER -> <<>>

(* A std::smatch no search has filled, and one a search has filled. *)
Unready == [ready |-> FALSE, subs |-> <<>>]

Filled(subs) == [ready |-> TRUE, subs |-> subs]

(* The runner state a match opcode leaves. *)
MatchStep(op, opnd, target, st, own, host, crashed) ==
    /\ pm.abort = "none"
    /\ pm.steps < MaxSteps
    /\ pm' = [pm EXCEPT !.steps = @ + 1,
                        !.last = op,
                        !.operand = opnd,
                        !.pc = target,
                        !.stack = st,
                        !.regexpContext = own,
                        !.hostContext = host,
                        !.abort = IF crashed THEN op ELSE "none"]
    /\ UNCHANGED <<vmVars, ir, cg, lk>>

(* instr(SMATCHBEG) on a string the handler has pushed *)
SMatchBeg ==
    /\ pm.cls = "Head"
    /\ \E condition \in Strings :
           MatchStep("SMATCHBEG", condition, evaluateHead(pm, condition),
                     pm.stack, pm.regexpContext, pm.hostContext, FALSE)

(* MatchRegEx::evaluate: the loop over _map; 0 when no case matches. *)
firstMatch(cases, condition) ==
    LET hits == {k \in 1..Len(cases) :
                     regex_search(cases[k].label, condition) # <<>>}
    IN IF hits = {} THEN 0 ELSE CHOOSE k \in hits : \A j \in hits : k <= j

(* instr(SMATCHR): MatchRegEx::evaluate takes the match results from       *)
(* env->userdata(), seen as a RegExpContext, and passes nullptr to         *)
(* RegExp::match when userdata is null, which dereferences it.             *)
SMatchR ==
    /\ pm.cls = "RegExp"
    /\ \E condition \in Targets :
       LET k == firstMatch(pm.cases, condition)
           tried == IF k = 0 THEN Len(pm.cases) ELSE k
       IN MatchStep("SMATCHR", condition,
                    IF k = 0 THEN pm.elsePC ELSE pm.cases[k].pc,
                    pm.stack, pm.regexpContext,
                    IF pm.userdata = "null" THEN pm.hostContext
                    ELSE Filled(regex_search(pm.cases[tried].label, condition)),
                    pm.userdata = "null")

(* instr(SREGMATCH): the result goes to the runner's _regexpContext *)
SRegMatch ==
    /\ pm.cls = "RegExp"
    /\ \E pattern \in RegExps, data \in Targets :
       LET rs == regex_search(pattern, data) IN
       MatchStep("SREGMATCH", data, pm.pc + 1,
                 Append(pm.stack, IF rs # <<>> THEN "true" ELSE "false"),
                 Filled(rs), pm.hostContext, FALSE)

(* instr(SREGGROUP): rr[position] of the runner's _regexpContext; on       *)
(* match results that no search has filled the subscript is undefined, a   *)
(* checked build stops and an unchecked one yields the empty sub-match.    *)
SRegGroup ==
    /\ pm.cls = "RegExp"
    /\ \E A \in 0..1, checked \in BOOLEAN :
       LET rr == pm.regexpContext
           group == IF A < Len(rr.subs) THEN rr.subs[A + 1] ELSE ""
       IN /\ (checked => ~rr.ready)
          /\ MatchStep("SREGGROUP", A, pm.pc + 1,
                       Append(pm.stack, group), rr, pm.hostContext,
                       ~rr.ready /\ checked)

(* Program::setup and Runner::Runner: one match definition, the runner     *)
(* before its first opcode.                                                *)
InitMatch ==
    /\ code = <<>> /\ natFuncs = <<>> /\ natHandlers = <<>>
    /\ numbers = <<>>
    /\ dispatch = "switch" /\ quota = NoQuota /\ state = "Inactive"
    /\ ip = 0 /\ pc = 0 /\ stack = <<>> /\ globals = <<>>
    /\ phase = "off" /\ hist = Hist0
    /\ ir = Unused /\ cg = Unused /\ lk = Unused
    /\ \E cls \in {"Head", "RegExp"} :
       \E n \in 1..MaxCases :
       \E labels \in [1..n -> IF cls = "Head" THEN Labels ELSE RegExps] :
       \E pcs \in [1..n -> CasePcs] :
       \E userdata \in (IF cls = "Head" THEN {"null"} ELSE {"null", "context"}) :
          /\ \A i \in 1..n, j \in 1..n : labels[i] = labels[j] => i = j
          /\ pm = [cls |-> cls,
                   cases |-> [k \in 1..n |-> [label |-> labels[k], pc |-> pcs[k]]],
                   elsePC |-> ElsePC,
                   userdata |-> userdata,
                   regexpContext |-> Unready,
                   hostContext |-> Unready,
                   stack |-> <<>>, pc |-> 0, steps |-> 0,
                   last |-> "none", operand |-> "none", abort |-> "none"]

NextMatch ==
    \/ SMatchBeg
    \/ SMatchR
    \/ SRegMatch
    \/ SRegGroup

SpecMatch == InitMatch /\ [][NextMatch]_vars

(* C26: a Head match evaluates a string s to the pc of the case with the   *)
(* longest label that is a prefix of s, and to elsePC when no label is a   *)
(* prefix of s: with the cases a -> A, ab -> B it sends abb to B, aa to A  *)
(* and b to elsePC.                                                        *)
C26_LongestPrefixCase ==
    (pm.cls = "Head" /\ pm.last = "SMATCHBEG") =>
        LET s == pm.operand
            isPrefix(l) == Len(l) <= Len(s) /\ SubSeq(s, 1, Len(l)) = l
            hits == {k \in 1..Len(pm.cases) : isPrefix(pm.cases[k].label)}
        IN IF hits = {} THEN pm.pc = pm.elsePC
           ELSE \E k \in hits :
                   /\ \A j \in hits :
                          Len(pm.cases[j].label) <= Len(pm.cases[k].label)
                   /\ pm.pc = pm.cases[k].pc

(* C27: SMATCHR goes to the pc of the first case, in declaration order,    *)
(* whose regular expression matches, and stores that match's captured      *)
(* groups in the runner's regex context, so that a SREGGROUP n that        *)
(* follows pushes the n-th group of that match.                            *)
C27_RegexGroupsStored ==
    pm.cls = "RegExp" =>
        /\ (pm.last = "SMATCHR" /\ firstMatch(pm.cases, pm.operand) # 0) =>
               LET k == firstMatch(pm.cases, pm.operand) IN
               /\ pm.abort = "none"
               /\ pm.pc = pm.cases[k].pc
               /\ pm.regexpContext.ready
               /\ pm.regexpContext.subs =
                      regex_search(pm.cases[k].label, pm.operand)
        /\ (pm.last = "SREGGROUP" /\ pm.operand < Len(pm.regexpContext.subs))
               => /\ pm.abort = "none"
                  /\ Last(pm.stack) = pm.regexpContext.subs[pm.operand + 1]


(* ---------------------------------------------------------------------- *)
(* IRBuilder: folding of string concatenation                               *)
(* ---------------------------------------------------------------------- *)
(* pm holds the IRProgram's _strings table, the SAddInstr the builder has  *)
(* inserted (operands lhs and rhs), and the last createSAdd call with its  *)
(* result. A Value is [kind, at]: a ConstantString at a position of the    *)
(* table, an SAddInstr at a position of the inserted ones, or one of two   *)
(* other String values that are not constants.                             *)

MaxBuilds == 3

(* IRBuilder::createSAdd: what it returns and what it leaves. *)
createSAdd(b, lhs, rhs) ==
    LET strOf(v) == b.strings[v.at + 1]
        inserted == [b |-> [b EXCEPT !.instrs = Append(@, [lhs |-> lhs, rhs |-> rhs])],
                     res |-> [kind |-> "sadd", at |-> Len(b.instrs)]]
        same(v) == [b |-> b, res |-> v]
    IN
    IF lhs.kind = "string"
    THEN IF rhs.kind = "string"
         THEN LET r == get(b.strings, "string", strOf(lhs) \o strOf(rhs))
              IN [b |-> [b EXCEPT !.strings = r.table],
                  res |-> [kind |-> "string", at |-> r.at]]
         ELSE IF strOf(lhs) = "" THEN same(rhs) ELSE inserted
    ELSE IF rhs.kind = "string"
         THEN IF strOf(rhs) = "" THEN same(rhs) ELSE inserted
         ELSE inserted

(* IRBuilder::get(const std::string&) *)
BuildString ==
    /\ pm.n < MaxBuilds
    /\ \E literal \in {"", "a"} :
       \E r \in {get(pm.strings, "string", literal)} :
           pm' = [pm EXCEPT !.strings = r.table, !.n = @ + 1, !.last = "get"]
    /\ UNCHANGED <<vmVars, ir, cg, lk>>

(* IRBuilder::createSAdd on two String values the builder has handed out *)
BuildSAdd ==
    /\ pm.n < MaxBuilds
    /\ LET values == {[kind |-> "string", at |-> i - 1] : i \in 1..Len(pm.strings)}
                     \cup {[kind |-> "sadd", at |-> i - 1] : i \in 1..Len(pm.instrs)}
                     \cup {[kind |-> "value", at |-> i] : i \in {0, 1}}
       IN \E lhs \in values, rhs \in values :
          \E r \in {createSAdd(pm, lhs, rhs)} :
              pm' = [r.b EXCEPT !.n = pm.n + 1, !.last = "createSAdd",
                                !.lhs = lhs, !.rhs = rhs, !.res = r.res,
                                !.emitted = Len(r.b.instrs) - Len(pm.instrs)]
    /\ UNCHANGED <<vmVars, ir, cg, lk>>

(* IRBuilder::IRBuilder with a new IRProgram *)
InitBuild ==
    /\ code = <<>> /\ natFuncs = <<>> /\ natHandlers = <<>>
    /\ numbers = <<>>
    /\ dispatch = "switch" /\ quota = NoQuota /\ state = "Inactive"
    /\ ip = 0 /\ pc = 0 /\ stack = <<>> /\ globals = <<>>
    /\ phase = "off" /\ hist = Hist0
    /\ ir = Unused /\ cg = Unused /\ lk = Unused
    /\ pm = [strings |-> <<>>, instrs |-> <<>>, n |-> 0, last |-> "none",
             lhs |-> [kind |-> "value", at |-> 0],
             rhs |-> [kind |-> "value", at |-> 0],
             res |-> [kind |-> "value", at |-> 0], emitted |-> 0]

NextBuild ==
    \/ BuildString
    \/ BuildSAdd

SpecBuild == InitBuild /\ [][NextBuild]_vars

(* C28: createSAdd folds an empty constant string on either side to the    *)
(* other side: createSAdd("", x) and createSAdd(x, "") return x itself,    *)
(* for a constant and for a non-constant x, and insert no instruction.     *)
C28_EmptyStringFolds ==
    pm.last = "createSAdd" =>
        LET empty(v) == v.kind = "string" /\ pm.strings[v.at + 1] = "" IN
        /\ empty(pm.lhs) => (pm.res = pm.rhs /\ pm.emitted = 0)
        /\ empty(pm.rhs) => (pm.res = pm.lhs /\ pm.emitted = 0)

----------------------------------------------------------------------------
(* A handler's code before and after PassManager::run, run by the Runner   *)
(* with the same native callbacks.                                         *)

(* The opcodes one run is followed for. *)
MaxFuel == 40

(* What the native callbacks answer: a side-effect free callback by its    *)
(* first argument (key 0 without one, else 1 + argument), any other by the *)
(* number of times it was called before (key 0, 1, 2 for twice or more).   *)
Replies == [{4, 5} \X (0..2) -> {0, 1}]

(* FunctionAttribute::SideEffectFree of the callee's native callback *)
SideEffectFree(s, callee) == s.obj[callee].data \in {1, 3}

(* Runner::loop on the code generated for handler s, without quota and     *)
(* with callbacks that do not suspend: the calls made (callee and          *)
(* arguments) and the result of run(), "running" when the fuel is spent    *)
(* and "aborted" where the code asserts.                                    *)
loop(g, s, reply) ==
    LET c == setCode(g.code)
        RECURSIVE step(_, _, _, _, _)
        step(at, st, gl, calls, fuel) ==
            IF fuel = 0 THEN [calls |-> calls, ret |-> "running"]
            ELSE IF at < 0 \/ at >= Len(c)
            THEN [calls |-> calls, ret |-> "aborted"]
            ELSE LET in == c[at + 1] IN
            CASE in.op = "EXIT" ->
                    [calls |-> calls,
                     ret |-> IF in.A # 0 THEN "true" ELSE "false"]
              [] in.op = "CALL" ->
                    IF in.A >= Len(g.funcs) \/ in.B > Len(st)
                    THEN [calls |-> calls, ret |-> "aborted"]
                    ELSE LET callee == g.funcs[in.A + 1]
                             n == Len(st)
                             args == SubSeq(st, n - in.B + 1, n)
                             before == Cardinality(
                                 {k \in 1..Len(calls) :
                                     calls[k].callee = callee})
                             key == IF SideEffectFree(s, callee)
                                    THEN IF args = <<>> THEN 0
                                         ELSE 1 + Min(args[1], 1)
                                    ELSE Min(before, 2)
                             rest == DropLast(st, in.B)
                         IN step(at + 1,
                                 IF s.obj[callee].data = 0 THEN rest
                                 ELSE Append(rest, reply[<<callee, key>>]),
                                 gl,
                                 Append(calls, [callee |-> callee,
                                                args |-> args]),
                                 fuel - 1)
              [] OTHER ->
                    LET e == Effect(in, st, gl, at)
                    IN IF e.ok
                       THEN step(e.to, e.stack, e.globals, calls, fuel - 1)
                       ELSE [calls |-> calls, ret |-> "aborted"]
    IN IF g.abort THEN [calls |-> <<>>, ret |-> "nocode"]
       ELSE step(0, <<>>, <<>>, <<>>, MaxFuel)

(* The handler before run() and the handler run() left are compiled and    *)
(* run; a run() that stopped the process leaves no handler to run.         *)
Compare ==
    /\ lk.compared = FALSE
    /\ pm.mode = "again" \/ ir.abort # "none"
    /\ \E reply \in Replies :
       \E plain \in {loop(generate(lk.original), lk.original, reply)} :
       \E optimised \in {IF ir.abort # "none"
                         THEN [calls |-> <<>>, ret |-> "crashed"]
                         ELSE loop(generate(ir), ir, reply)} :
           lk' = [lk EXCEPT !.compared = TRUE, !.reply = reply,
                            !.plain = plain, !.optimised = optimised]
    /\ UNCHANGED <<vmVars, ir, cg, pm>>

(* A pass of PassManager::run. *)
RunPass(A) == pm.mode = "run" /\ lk.compared = FALSE /\ A

InitEquiv ==
    /\ \E k \in 1..Len(OptHandlers), b \in {0, 1}, f \in {0, 2} :
           ir = [build(OptHandlers[k]) EXCEPT !.obj[3].data = b,
                                             !.obj[4].data = f]
    /\ pm = [n |-> Len(Registered), pos |-> 1,
             changes |-> 0, done |-> FALSE, mode |-> "run", sweeps |-> 1,
             moved |-> FALSE, pass |-> "none", ret |-> FALSE,
             before |-> ir]
    /\ lk = [original |-> ir, compared |-> FALSE,
             reply |-> [x \in {4, 5} \X (0..2) |-> 0],
             plain |-> [calls |-> <<>>, ret |-> "none"],
             optimised |-> [calls |-> <<>>, ret |-> "none"]]
    /\ code = <<>> /\ natFuncs = <<>> /\ natHandlers = <<>>
    /\ numbers = <<>>
    /\ dispatch = "switch" /\ quota = NoQuota /\ state = "Inactive"
    /\ ip = 0 /\ pc = 0 /\ stack = <<>> /\ globals = <<>>
    /\ phase = "off" /\ hist = Hist0
    /\ cg = Unused

NextEquiv ==
    \/ RunPass(OptEmptyBlockElimination)
    \/ RunPass(OptEliminateLinearBr)
    \/ RunPass(OptEliminateUnusedBlocks)
    \/ RunPass(OptEliminateUnusedInstr)
    \/ RunPass(OptFoldConstantCondBr)
    \/ RunPass(OptRewriteBrToExit)
    \/ RunPass(OptRewriteCondBrToSameBranches)
    \/ Compare

SpecEquiv == InitEquiv /\ [][NextEquiv]_vars

(* C30: for every well-formed handler, the handler PassManager::run leaves *)
(* with the required passes, compiled and run, makes the same sequence of  *)
(* native calls with the same arguments and returns the same result as the *)
(* unoptimised handler, compiled and run.                                   *)
C30_OptimisationPreservesBehaviour ==
    (lk.compared /\ lk.plain.ret \in {"true", "false"}) =>
        lk.optimised = lk.plain

----------------------------------------------------------------------------
(* The runner's lifecycle: run(), resume() and suspend() called in any     *)
(* state, by the runner's owner between two runs, after QuotaExceeded, or  *)
(* from inside a native callback.                                          *)

(* A runner that lets run() start over from a suspension. *)
accepts_m(call, st) ==
    CASE call = "run" -> st \in {"Inactive", "Suspended"}
      [] call = "resume" -> st = "Suspended"
      [] call = "suspend" -> st = "Running"

(* The assert that opens Runner::run, Runner::resume and Runner::suspend *)
accepts(call, st) ==
    CASE call = "run" -> st = "Inactive"
      [] call = "resume" -> st = "Suspended"
      [] call = "suspend" -> st = "Running"

(* Where a call of the interface comes from: the owner outside             *)
(* run()/resume(), or a native callback the loop is about to invoke.       *)
Callable ==
    \/ phase \in {"idle", "raised"}
    \/ phase = "loop" /\ code[pc + 1].op \in {"CALL", "HANDLER"}

(* The assert fails and stops the process. *)
Rejected ==
    /\ phase' = "rejected"
    /\ UNCHANGED <<code, natFuncs, natHandlers, numbers, dispatch, quota,
                   state, ip, pc, stack, globals, hist, ir, cg, lk, pm>>

(* Runner::run *)
CallRun ==
    /\ Callable
    /\ Len(hist.rets) < MaxRuns /\ hist.executed < MaxCount
    /\ IF accepts("run", state) THEN EnterLoop(hist) ELSE Rejected

(* Runner::resume *)
CallResume ==
    /\ Callable
    /\ Len(hist.rets) < MaxRuns /\ hist.executed < MaxCount
    /\ IF accepts("resume", state)
       THEN EnterLoop([hist EXCEPT !.resumed = TRUE])
       ELSE Rejected

(* Runner::suspend called by the owner; a callback's suspend() is part of  *)
(* instr(CALL) and instr(HANDLER).                                         *)
CallSuspend ==
    /\ phase \in {"idle", "raised"}
    /\ IF accepts("suspend", state)
       THEN /\ state' = "Suspended"
            /\ phase' = "idle"
            /\ UNCHANGED <<code, natFuncs, natHandlers, numbers, dispatch,
                           quota, ip, pc, stack, globals, hist, ir, cg, lk,
                           pm>>
       ELSE Rejected

NextLife ==
    \/ CallRun
    \/ CallResume
    \/ CallSuspend
    \/ ExecPlain
    \/ ExecExit
    \/ ExecCall
    \/ ExecHandler

SpecLife == InitVM /\ [][NextLife]_vars

(* C31: run() is accepted only in state Inactive, resume() only in state   *)
(* Suspended and suspend() only in state Running, and whenever run() or    *)
(* resume() returns normally the state is Inactive or Suspended.           *)
C31_StrictLifecycle ==
    [][/\ (CallRun /\ phase' # "rejected") => state = "Inactive"
       /\ (CallResume /\ phase' # "rejected") => state = "Suspended"
       /\ (CallSuspend /\ phase' # "rejected") => state = "Running"
       /\ ((ExecCall \/ ExecHandler) /\ state' = "Suspended") =>
              state = "Running"
       /\ (phase = "loop" /\ phase' = "idle") =>
              state' \in {"Inactive", "Suspended"}]_vars

(* A runner that was suspended, resumed and suspended again, and an owner  *)
(* whose run() on it was then turned down.                                 *)
C31_Witness ==
    /\ phase = "rejected"
    /\ state = "Suspended"
    /\ Len(hist.rets) >= 2
    /\ hist.rets[1].state = "Suspended"

(* C32: a runner constructed with a finite quota never executes opcodes   *)
(* whose total price exceeds the initial quota, across run() and any       *)
(* number of resume() calls.                                               *)
C32_QuotaBoundsExecution ==
    hist.quota0 # NoQuota => hist.executed * getPrice("NOP") <= hist.quota0

----------------------------------------------------------------------------
(* PassManager::run and its callers go on calling passes: the loop of      *)
(* run() calls the next pass as long as it has not returned.               *)
(* Weak fairness of the pass calls, WF_vars(NextOpt), written with the     *)
(* condition under which a pass can be called (OptCall) in the place of    *)
(* ENABLED.                                                                *)
OptGoing ==
    /\ ir.abort = "none"
    /\ pm.mode \in {"any", "run", "again"}
    /\ pm.mode = "any" => verify(ir)

SpecOptFair ==
    /\ InitOpt /\ [][NextOpt]_vars
    /\ ([]<>(~OptGoing) \/ []<><<NextOpt>>_vars)

(* C33: PassManager::run(handler) terminates: on no handler and in no      *)
(* order of the passes do the passes keep reporting changes forever, and   *)
(* run() with the registered passes comes to its return or the process to  *)
(* a stop.                                                                  *)
C33_RunTerminates ==
    /\ <>[][~pm'.ret]_vars
    /\ <>(pm.mode # "run" \/ ir.abort # "none")

(* run() has returned after a sweep that changed the handler and one that  *)
(* did not.                                                                *)
C33_Witness ==
    pm.mode = "again" /\ pm.sweeps >= 2 /\ ir.abort = "none"

----------------------------------------------------------------------------
(* The generated code run on a stack of Values: every slot of the run-time *)
(* stack is named by the Value whose result the Runner put there.          *)

(* The handlers: those of CGHandlers, and results loaded from below the    *)
(* top of the stack: f(g(), g()); a result used once below a local; a      *)
(* result used twice below a local; an if whose false block is next in    *)
(* the layout; an if neither of whose blocks is next; a result that is     *)
(* live across an if, used in the true arm, with two more results in the   *)
(* false arm.                                                              *)
SimHandlers ==
    LET I(k, o) == [kind |-> k, ops |-> o]
    IN CGHandlers \o
       << << <<I("call", <<5>>), I("call", <<5>>), I("call", <<4, 9, 10>>),
               I("ret", <<1>>)>> >>,
          << <<I("call", <<5>>), I("alloca", <<2>>), I("call", <<4, 9>>),
               I("ret", <<1>>)>> >>,
          << <<I("call", <<5>>), I("alloca", <<2>>), I("call", <<4, 9>>),
               I("call", <<4, 9>>), I("ret", <<1>>)>> >>,
          << <<I("call", <<5>>), I("condbr", <<11, 10, 9>>)>>,
             <<I("ret", <<1>>)>>,
             <<I("ret", <<2>>)>> >>,
          << <<I("call", <<5>>), I("condbr", <<12, 10, 11>>)>>,
             <<I("ret", <<1>>)>>,
             <<I("ret", <<2>>)>>,
             <<I("ret", <<3>>)>> >>,
          << <<I("call", <<5>>), I("call", <<5>>), I("condbr", <<12, 9, 10>>)>>,
             <<I("call", <<4, 11>>), I("ret", <<1>>)>>,
             <<I("call", <<5>>), I("call", <<5>>), I("call", <<4, 16, 17>>),
               I("ret", <<2>>)>> >> >>

(* TargetCodeGenerator::generate, and a Runner on the handler's code *)
SimGenerate ==
    /\ phase = "gen"
    /\ \E g \in {generate(ir)} :
       /\ cg' = [stks |-> g.stks, made |-> g.made, lds |-> g.lds,
                 entry |-> g.entry, abort |-> g.abort]
       /\ code' = setCode(g.code)
       /\ phase' = IF g.abort THEN "aborted" ELSE "sim"
    /\ pc' = 0 /\ stack' = <<>>
    /\ UNCHANGED <<natFuncs, natHandlers, numbers, dispatch, quota, state,
                   ip, globals, hist, ir, lk, pm>>

(* Runner::loop, one opcode: an opcode that computes a value leaves the    *)
(* Value the generator emitted it for, the others move, copy or drop       *)
(* slots as Effect has it; a jump on a constant goes the constant's way,   *)
(* a jump on a result either way.                                          *)
SimStep ==
    /\ phase = "sim"
    /\ LET in == code[pc + 1]
           n == Len(stack)
           made == IF \E x \in cg.made : x.pc = pc
                   THEN (CHOOSE x \in cg.made : x.pc = pc).v ELSE Null
           go(st, to) ==
               /\ stack' = st /\ pc' = to
               /\ phase' = IF to < Len(code) THEN "sim" ELSE "aborted"
           stop(how) == /\ phase' = how /\ UNCHANGED <<stack, pc>>
       IN
       CASE in.op = "EXIT" -> stop("end")
         [] in.op \in {"ILOAD", "NLOAD", "SLOAD", "ALLOCA"} ->
               go(Append(stack, made), pc + 1)
         [] in.op = "CALL" ->
               IF in.B > n THEN stop("aborted")
               ELSE go(IF in.C = 1 THEN Append(DropLast(stack, in.B), made)
                       ELSE DropLast(stack, in.B), pc + 1)
         [] in.op = "HANDLER" ->
               IF in.B > n THEN stop("aborted")
               ELSE \/ go(DropLast(stack, in.B), pc + 1)
                    \/ stop("end")
         [] in.op \in BinaryOps ->
               IF n < 2 THEN stop("aborted")
               ELSE go(Append(DropLast(stack, 2), made), pc + 1)
         [] in.op \in UnaryOps ->
               IF n < 1 THEN stop("aborted")
               ELSE go(Append(DropLast(stack, 1), made), pc + 1)
         [] in.op \in {"JZ", "JN"} ->
               IF n < 1 THEN stop("aborted")
               ELSE \E nonzero \in
                        IF ir.obj[stack[n]].kind \in {"int", "bool"}
                        THEN {ir.obj[stack[n]].data # 0} ELSE BOOLEAN :
                    go(DropLast(stack, 1),
                       IF nonzero = (in.op = "JN") THEN in.A ELSE pc + 1)
         [] OTHER ->
               LET e == Effect(in, stack, <<>>, pc)
               IN IF e.ok THEN go(e.stack, e.to) ELSE stop("aborted")
    /\ UNCHANGED <<code, natFuncs, natHandlers, numbers, dispatch, quota,
                   state, ip, globals, hist, ir, cg, lk, pm>>

InitSim ==
    /\ \E k \in 1..Len(SimHandlers), number \in LoadConstants :
           ir = [build(SimHandlers[k]) EXCEPT !.obj[2].data = number]
    /\ cg = [stks |-> <<>>, made |-> {}, lds |-> {}, entry |-> <<>>,
             abort |-> FALSE]
    /\ code = <<>> /\ natFuncs = <<>> /\ natHandlers = <<>>
    /\ numbers = <<>>
    /\ dispatch = "switch" /\ quota = NoQuota
    /\ state = "Inactive" /\ ip = 0 /\ pc = 0
    /\ stack = <<>> /\ globals = <<>>
    /\ phase = "gen" /\ hist = Hist0
    /\ lk = Unused /\ pm = Unused

NextSim ==
    \/ SimGenerate
    \/ SimStep

SpecSim == InitSim /\ [][NextSim]_vars

(* C34: whenever execution reaches an emitted instruction, every slot of   *)
(* the generator's simulated stack, as it was when the instruction was     *)
(* emitted, records the Value the run-time stack holds at that slot.       *)
C34_SimulatedStackIsRuntimeStack ==
    (phase = "sim" /\ pc < Len(cg.stks)) =>
        \A i \in 1..Len(cg.stks[pc + 1]) :
            i <= Len(stack) /\ stack[i] = cg.stks[pc + 1][i]

(* C38: a load of a non-constant value emits nothing when the value is on  *)
(* top of the simulated stack, a STACKROT when it is deeper and its use    *)
(* count is exactly one, and a LOAD otherwise; when execution reaches the  *)
(* instruction that follows the load, the value is on top of the run-time  *)
(* stack.                                                                  *)
C38_LoadedValueOnTop ==
    phase = "sim" =>
        /\ \A x \in cg.lds :
               x.emitted = IF ~x.below THEN "none"
                           ELSE IF x.uses = 1 THEN "STACKROT" ELSE "LOAD"
        /\ \A x \in cg.lds :
               (x.pc = pc /\ \A y \in cg.lds : y.pc = pc => y.k <= x.k) =>
                   stack # <<>> /\ Last(stack) = x.v

(* C37: the code of a block that ends in a conditional branch ends in      *)
(* JZ <false block> when the true block is next in the layout, in          *)
(* JN <true block> when the false block is next, and in                    *)
(* JN <true block>; JMP <false block> otherwise, each jump's operand being *)
(* the pc at which the code of its target block starts.                    *)
C37_CondBrJumps ==
    phase = "sim" =>
        \A k \in 1..Len(ir.blocks) :
            LET bb == ir.blocks[k]
                last == Last(ir.obj[bb].code)
                o == ir.obj[last]
                next == IF k < Len(ir.blocks) THEN ir.blocks[k + 1] ELSE Null
                end == IF next = Null THEN Len(cg.stks) ELSE cg.entry[next]
                is(p, op, to) == /\ p >= 1
                                 /\ code[p].op = op
                                 /\ code[p].A = cg.entry[to]
            IN (ir.obj[bb].code # <<>> /\ o.kind = "condbr") =>
                   IF next = o.ops[2]
                   THEN is(end, "JZ", o.ops[3])
                        /\ ~is(end - 1, "JN", o.ops[2])
                   ELSE IF next = o.ops[3]
                   THEN is(end, "JN", o.ops[2])
                   ELSE is(end - 1, "JN", o.ops[2]) /\ is(end, "JMP", o.ops[3])

(* a JN; JMP pair was generated and its JMP has been taken *)
C37_Witness ==
    /\ phase = "sim"
    /\ \E p \in 2..Len(code) :
           /\ code[p].op = "JMP" /\ code[p - 1].op = "JN"
           /\ pc = code[p].A /\ pc > p

(* vm/Instruction.cpp: instructionInfos[opc].stackChange *)
stackChange(op) ==
    CASE op \in {"GLOAD", "LOAD", "ILOAD", "NLOAD", "SLOAD", "PLOAD"} -> 1
      [] op \in {"GSTORE", "STORE", "JN", "JZ"} -> -1
      [] op \in BinaryOps -> -1
      [] OTHER -> 0

(* getStackChange *)
getStackChange(in) ==
    CASE in.op = "ALLOCA" -> in.A
      [] in.op = "DISCARD" -> 0 - in.A
      [] in.op = "HANDLER" -> 0 - in.B
      [] in.op = "CALL" -> in.C - in.B
      [] OTHER -> stackChange(in.op)

(* computeStackSize: one pass over the code in layout order.  stackSize is *)
(* a size_t: a running sum below zero is a value near the largest size_t,  *)
(* and the maximum keeps it (wrapped).                                     *)
computeStackSize(program) ==
    LET RECURSIVE pass(_, _, _, _)
        pass(i, stackSize, limit, wrapped) ==
            IF i > Len(program) THEN [limit |-> limit, wrapped |-> wrapped]
            ELSE LET sum == stackSize + getStackChange(program[i])
                 IN pass(i + 1, sum, IF limit < sum THEN sum ELSE limit,
                         wrapped \/ sum < 0)
    IN pass(1, 0, 0, FALSE)

(* C35: while the Runner executes a generated handler its stack never      *)
(* holds more values than computeStackSize found for the handler's code,   *)
(* and no opcode finds fewer values on it than it takes.                   *)
C35_StackWithinComputedSize ==
    /\ phase = "sim" =>
           \E size \in {computeStackSize(code)} :
               size.wrapped \/ Len(stack) <= size.limit
    /\ phase = "aborted" => cg.abort

----------------------------------------------------------------------------
(* IRBuilder's create functions on constant and on non-constant operands,  *)
(* and the Runner on the opcode generated for the instruction a create     *)
(* function inserts.  A String is a sequence of Chars; pm holds the call,  *)
(* its operands (a value, and whether it is a Constant), what the call     *)
(* returned and what the Runner computed.                                  *)

(* the order of char values *)
Ord(c) == IF c = "a" THEN 0 ELSE 1

(* std::string::operator< *)
strLess(a, b) ==
    \E i \in 1..Len(b) :
        /\ \A j \in 1..(i - 1) : j <= Len(a) /\ a[j] = b[j]
        /\ i > Len(a) \/ (a[i] # b[i] /\ Ord(a[i]) < Ord(b[i]))

(* str.find(needle) != std::string::npos *)
sfind(str, needle) ==
    \E i \in 0..(Len(str) - Len(needle)) :
        SubSeq(str, i + 1, i + Len(needle)) = needle

(* util/strings.h *)
beginsWith(str, prefix) ==
    IF Len(str) < Len(prefix) THEN FALSE
    ELSE SubSeq(str, 1, Len(prefix)) = prefix

endsWith(str, prefix) ==
    IF Len(str) < Len(prefix) THEN FALSE
    ELSE SubSeq(str, Len(str) - Len(prefix) + 1, Len(str)) = prefix

(* The create functions: the type of their operands, the instruction they  *)
(* insert, and whether they take one operand.                              *)
Creates ==
    [createNeg |-> [type |-> "number", instr |-> "ineg", unary |-> TRUE],
     createAdd |-> [type |-> "number", instr |-> "iadd", unary |-> FALSE],
     createSub |-> [type |-> "number", instr |-> "isub", unary |-> FALSE],
     createMul |-> [type |-> "number", instr |-> "imul", unary |-> FALSE],
     createDiv |-> [type |-> "number", instr |-> "idiv", unary |-> FALSE],
     createNCmpEQ |-> [type |-> "number", instr |-> "ncmpeq", unary |-> FALSE],
     createNCmpNE |-> [type |-> "number", instr |-> "ncmpne", unary |-> FALSE],
     createNCmpLE |-> [type |-> "number", instr |-> "ncmple", unary |-> FALSE],
     createNCmpGE |-> [type |-> "number", instr |-> "ncmpge", unary |-> FALSE],
     createNCmpLT |-> [type |-> "number", instr |-> "ncmplt", unary |-> FALSE],
     createNCmpGT |-> [type |-> "number", instr |-> "ncmpgt", unary |-> FALSE],
     createBNot |-> [type |-> "boolean", instr |-> "bnot", unary |-> TRUE],
     createBAnd |-> [type |-> "boolean", instr |-> "band", unary |-> FALSE],
     createBXor |-> [type |-> "boolean", instr |-> "band", unary |-> FALSE],
     createSLen |-> [type |-> "string", instr |-> "slen", unary |-> TRUE],
     createSAdd |-> [type |-> "string", instr |-> "sadd", unary |-> FALSE],
     createSCmpEQ |-> [type |-> "string", instr |-> "scmpeq", unary |-> FALSE],
     createSCmpNE |-> [type |-> "string", instr |-> "scmpne", unary |-> FALSE],
     createSCmpLE |-> [type |-> "string", instr |-> "scmple", unary |-> FALSE],
     createSCmpGE |-> [type |-> "string", instr |-> "scmpge", unary |-> FALSE],
     createSCmpLT |-> [type |-> "string", instr |-> "scmplt", unary |-> FALSE],
     createSCmpGT |-> [type |-> "string", instr |-> "scmpgt", unary |-> FALSE],
     createSCmpEB |-> [type |-> "string", instr |-> "scmpbeg", unary |-> FALSE],
     createSCmpEE |-> [type |-> "string", instr |-> "scmpend", unary |-> FALSE],
     createSIn |-> [type |-> "string", instr |-> "sin", unary |-> FALSE]]

(* The literal a create function returns a Constant of when its operands   *)
(* are Constants of the literals a and b.                                  *)
fold(create, a, b) ==
    CASE create = "createNeg" -> 0 - a
      [] create = "createAdd" -> a + b
      [] create = "createSub" -> a - b
      [] create = "createMul" -> a * b
      [] create = "createDiv" -> Quotient(a, b)
      [] create = "createNCmpEQ" -> B2N(a = b)
      [] create = "createNCmpNE" -> B2N(a # b)
      [] create = "createNCmpLE" -> B2N(a <= b)
      [] create = "createNCmpGE" -> B2N(a >= b)
      [] create = "createNCmpLT" -> B2N(a < b)
      [] create = "createNCmpGT" -> B2N(a > b)
      [] create = "createBNot" -> B2N(a = 0)
      [] create = "createBAnd" -> B2N(a # 0 /\ b # 0)
      [] create = "createBXor" -> B2N((a # 0) # (b # 0))
      [] create = "createSLen" -> Len(a)
      [] create = "createSAdd" -> a \o b
      [] create = "createSCmpEQ" -> B2N(a = b)
      [] create = "createSCmpNE" -> B2N(a # b)
      [] create = "createSCmpLE" -> B2N(~strLess(b, a))
      [] create = "createSCmpGE" -> B2N(~strLess(a, b))
      [] create = "createSCmpLT" -> B2N(strLess(a, b))
      [] create = "createSCmpGT" -> B2N(strLess(b, a))
      [] create = "createSCmpEB" -> B2N(beginsWith(a, b))
      [] create = "createSCmpEE" -> B2N(endsWith(a, b))
      \* b->get().find(a->get()) != npos
      [] create = "createSIn" -> B2N(sfind(b, a))

(* Runner::loop: what opcode op leaves for SP(-2) = a and SP(-1) = b (for  *)
(* SP(-1) = a where it takes one operand).                                 *)
execute(op, a, b) ==
    CASE op \in BinaryOps -> BinaryResult(op, a, b)
      [] op \in UnaryOps -> UnaryResult(op, a)
      [] op = "SLEN" -> Len(a)
      [] op = "SADD" -> a \o b
      [] op = "SCMPEQ" -> B2N(a = b)
      [] op = "SCMPNE" -> B2N(a # b)
      [] op = "SCMPLE" -> B2N(~strLess(b, a))
      [] op = "SCMPGE" -> B2N(~strLess(a, b))
      [] op = "SCMPLT" -> B2N(strLess(a, b))
      [] op = "SCMPGT" -> B2N(strLess(b, a))
      [] op = "SCMPBEG" -> B2N(beginsWith(a, b))
      [] op = "SCMPEND" -> B2N(endsWith(a, b))
      \* getString(-2).find(getString(-1)) != npos
      [] op = "SCONTAINS" -> B2N(sfind(a, b))

(* The literals the operands are drawn from. *)
OperandLiterals(type) ==
    CASE type = "number" -> {-2, 0, 1, 3}
      [] type = "boolean" -> {0, 1}
      [] type = "string" -> Strings

(* One call of a create function: a Constant when every operand is one,    *)
(* else the instruction it inserts.                                        *)
Create ==
    /\ pm.last = "none"
    /\ \E create \in DOMAIN Creates :
       \E a \in OperandLiterals(Creates[create].type),
          b \in OperandLiterals(Creates[create].type),
          ca \in BOOLEAN, cb \in BOOLEAN :
           /\ Creates[create].unary => (b = a /\ cb = ca)
           /\ create = "createDiv" => b # 0
           /\ pm' = [pm EXCEPT
                       !.last = "create", !.create = create,
                       !.lhs = [val |-> a, constant |-> ca],
                       !.rhs = [val |-> b, constant |-> cb],
                       !.res = IF ca /\ cb
                               THEN [kind |-> "constant",
                                     literal |-> <<fold(create, a, b)>>]
                               ELSE [kind |-> Creates[create].instr,
                                     literal |-> <<>>]]
    /\ UNCHANGED <<vmVars, ir, cg, lk>>

(* The Runner on the opcode generated for the instruction the create       *)
(* function inserts, with the operands' values on the stack in the order   *)
(* emitBinary loads them: operand 0, then operand 1.                       *)
Execute ==
    /\ pm.last = "create"
    /\ pm' = [pm EXCEPT
                !.last = "execute",
                !.opcode = binaryOpcode(Creates[pm.create].instr),
                !.ran = <<execute(binaryOpcode(Creates[pm.create].instr),
                                  pm.lhs.val, pm.rhs.val)>>]
    /\ UNCHANGED <<vmVars, ir, cg, lk>>

InitFold ==
    /\ code = <<>> /\ natFuncs = <<>> /\ natHandlers = <<>>
    /\ numbers = <<>>
    /\ dispatch = "switch" /\ quota = NoQuota /\ state = "Inactive"
    /\ ip = 0 /\ pc = 0 /\ stack = <<>> /\ globals = <<>>
    /\ phase = "off" /\ hist = Hist0
    /\ ir = Unused /\ cg = Unused /\ lk = Unused
    /\ pm = [last |-> "none", create |-> "none",
             lhs |-> [val |-> 0, constant |-> FALSE],
             rhs |-> [val |-> 0, constant |-> FALSE],
             res |-> [kind |-> "none", literal |-> <<>>],
             opcode |-> "none", ran |-> <<>>]

NextFold ==
    \/ Create
    \/ Execute

SpecFold == InitFold /\ [][NextFold]_vars

(* C36: the constant a create function folds two constant operands to is   *)
(* the value the Runner computes when it executes the opcode of the        *)
(* function's instruction on the same operands in the same order, for the  *)
(* arithmetic, the comparisons, beginsWith, endsWith, contains and length. *)
C36_FoldAgreesWithExecution ==
    (/\ pm.last = "execute"
     /\ pm.res.kind = "constant"
     /\ Creates[pm.create].type # "boolean") => pm.res.literal = pm.ran

(* C39: createBXor on operands that are not both constants inserts a       *)
(* boolean-XOR instruction, and the value the Runner computes for it is    *)
(* the exclusive or of the operands' values.                               *)
C39_BXorComputesXor ==
    (/\ pm.last = "execute"
     /\ pm.create = "createBXor"
     /\ pm.res.kind # "constant") =>
        /\ pm.res.kind = "bxor"
        /\ pm.ran = <<B2N((pm.lhs.val # 0) # (pm.rhs.val # 0))>>

----------------------------------------------------------------------------
(* IRBuilder::makeName.  A name is a sequence of chars; pm holds           *)
(* _nameStore and the names returned so far.                               *)

(* The calls of makeName that are followed. *)
MaxNames == 4

(* The names makeName is called with: the empty name, a plain name, names  *)
(* that end in digits, and the name makeName gives to the empty one.       *)
BaseNames ==
    {<<>>, <<"a">>, <<"a", "1">>, <<"a", "1", "1">>, <<"t", "m", "p">>}

(* snprintf's %lu *)
Decimal(id) ==
    LET digit(d) == CASE d = 0 -> "0" [] d = 1 -> "1" [] d = 2 -> "2"
                      [] d = 3 -> "3" [] d = 4 -> "4" [] d = 5 -> "5"
                      [] d = 6 -> "6" [] d = 7 -> "7" [] d = 8 -> "8"
                      [] d = 9 -> "9"
        RECURSIVE digits(_)
        digits(n) == IF n < 10 THEN <<digit(n)>>
                     ELSE Append(digits(n \div 10), digit(n % 10))
    IN digits(id)

(* IRBuilder::makeName: the store it leaves and the name it returns *)
makeName(nameStore, name) ==
    LET theName == IF name = <<>> THEN <<"t", "m", "p">> ELSE name
    IN IF theName \notin DOMAIN nameStore
       THEN [store |-> nameStore @@ (theName :> 0), name |-> theName]
       ELSE LET id == nameStore[theName] + 1
            IN [store |-> [nameStore EXCEPT ![theName] = id],
                name |-> theName \o Decimal(id)]

MakeName ==
    /\ Len(pm.returned) < MaxNames
    /\ \E name \in BaseNames :
       \E r \in {makeName(pm.nameStore, name)} :
           pm' = [nameStore |-> r.store, returned |-> Append(pm.returned, r.name)]
    /\ UNCHANGED <<vmVars, ir, cg, lk>>

InitName ==
    /\ code = <<>> /\ natFuncs = <<>> /\ natHandlers = <<>>
    /\ numbers = <<>>
    /\ dispatch = "switch" /\ quota = NoQuota /\ state = "Inactive"
    /\ ip = 0 /\ pc = 0 /\ stack = <<>> /\ globals = <<>>
    /\ phase = "off" /\ hist = Hist0
    /\ ir = Unused /\ cg = Unused /\ lk = Unused
    /\ pm = [nameStore |-> <<>>, returned |-> <<>>]

NextName == MakeName

SpecName == InitName /\ [][NextName]_vars

(* C40: the names makeName has returned are pairwise distinct. *)
C40_NamesDistinct ==
    \A i, j \in 1..Len(pm.returned) :
        i # j => pm.returned[i] # pm.returned[j]

====
